---- MODULE Spec2Model ----
(***************************************************************************)
(* annscraper: the announcement pipeline (cmd/scraper/main.go,             *)
(* internal/asx, internal/history) as a state machine.                     *)
(*                                                                         *)
(* One process run is: NewManager (loadHistory) -> ScrapeDailyFeed ->      *)
(* ProcessAnnouncements (bounded worker pool, fan-in over an unbuffered    *)
(* channel) -> report -> RecordMatches (saveHistory).  The history file    *)
(* and the calendar day live across runs.                                  *)
(*                                                                         *)
(* Strings are sequences of bytes, each written as a short string, so that *)
(* substring search, lower-casing, slicing and concatenation are computed, *)
(* not assumed.                                                            *)
(***************************************************************************)
EXTENDS Integers, Sequences, FiniteSets, Bags, TLC

(***************************************************************************)
(* Bounds of the model.                                                    *)
(***************************************************************************)
\* process runs (invocations of main) in one behaviour
MaxRuns == 2
\* calendar days 1..MaxDay
MaxDay == 2
\* length of a daily feed in the multi-run specification
MaxAnns == 2
\* environment failures (network, extractor, file write) in one behaviour
MaxFaults == 1
\* length of the feed in the worker-pool specification
PoolAnns == 11

\* pages the feed server holds in the fetch specification
MaxPages == 2

\* goroutines that call the history manager in the locking specification
MaxGoroutines == 2
\* calls each of them makes
MaxCalls == 2

\* length of a response body in the resolution specification
MaxBody == 6

\* rows of a feed page in the feed-selection specification
MaxRows == 2

\* Kelvin signs at the head of a text in the snippet specification
MaxKelvin == 26
\* blocks of filler before and after the keyword in a text
MaxBlocks == 1

\* announcements in the historic feed at most
MaxHistoric == 2

\* sem := make(chan struct{}, 10)
SemCap == 10

\* pageSize := 100
PageSize == 100

(***************************************************************************)
(* Strings.                                                                *)
(***************************************************************************)
UpperChars == <<"A", "B", "C", "D", "H", "I", "L", "S", "T", "V">>
LowerChars == <<"a", "b", "c", "d", "h", "i", "l", "s", "t", "v">>

\* unicode.ToLower on one character
LowerChar(c) ==
    IF \E i \in 1..Len(UpperChars) : UpperChars[i] = c
    THEN LowerChars[CHOOSE i \in 1..Len(UpperChars) : UpperChars[i] = c]
    ELSE c

\* the three bytes of U+212A KELVIN SIGN, whose lower case is the one byte "k"
KelvinSign == <<"K1", "K2", "K3">>

\* strings.ToLower: every character replaced by its lower case, which need
\* not have as many bytes
ToLower(s) ==
    LET kelvinAt(i) == i >= 1 /\ i + 2 <= Len(s) /\ SubSeq(s, i, i + 2) = KelvinSign
        lower == [i \in 1..Len(s) |->
                    IF kelvinAt(i) THEN "k"
                    ELSE IF kelvinAt(i - 1) \/ kelvinAt(i - 2) THEN ""
                    ELSE LowerChar(s[i])]
        byte(c) == c # ""
    IN  SelectSeq(lower, byte)

\* strings.Contains
Contains(s, sub) ==
    \E i \in 0..(Len(s) - Len(sub)) : SubSeq(s, i + 1, i + Len(sub)) = sub

(***************************************************************************)
(* Data: announcements, criteria, documents.                               *)
(***************************************************************************)
\* types.TickerMatchPlaceholder / history.tickerMatchPlaceholder
TickerMatchPlaceholder == <<"__TICKER_MATCHED__">>

\* A document reference: the ".do" trigger URL of document doc, or (after
\* resolution) its direct URL.
TriggerURL(doc) == [doc |-> doc, direct |-> FALSE]
DirectURL(url) == [doc |-> url.doc, direct |-> TRUE]

\* types.Announcement
Announcement(ticker, title, doc) ==
    [Ticker |-> ticker, Title |-> title, PDFURL |-> TriggerURL(doc)]

AnnDiv1 == Announcement(<<"A">>, <<"D", "i", "v">>, 1)
\* the same ticker and title listed again, for another document
AnnDiv2 == Announcement(<<"A">>, <<"D", "i", "v">>, 2)
AnnHalt == Announcement(<<"B">>, <<"H", "a", "l", "t">>, 3)

\* What pdftotext prints for each document.
DocText(doc) ==
    CASE doc = 1 -> <<"C", "a", "s", "h">>
      [] doc = 2 -> <<"d", "i", "v">>
      [] OTHER -> <<"c", "a", "s", "h">>

\* The command lines in use: -keywords and -tickers after parseKeywords and
\* parseTickers (lower-cased keywords, upper-cased tickers).
CriteriaChoices ==
    { [keywords |-> << <<"d", "i", "v">>, <<"c", "a", "s", "h">> >>, tickers |-> <<>>],
      [keywords |-> << <<"d", "i", "v">> >>, tickers |-> << <<"B">> >>],
      [keywords |-> <<>>, tickers |-> << <<"A">> >>],
      [keywords |-> << <<"c", "a", "s", "h">>, <<"d", "i", "v">> >>, tickers |-> <<>>] }

\* Feeds of a day: up to MaxAnns announcements, no document listed twice,
\* as an enumerated set of sequences.
DailyFeeds ==
    LET U == {AnnDiv1, AnnDiv2, AnnHalt}
        Seqs == UNION {[1..n -> U] : n \in 0..MaxAnns}
        Distinct(f) == \A i, j \in 1..Len(f) : i # j => f[i] # f[j]
    IN  {[i \in 1..Len(f) |-> f[i]] : f \in {g \in Seqs : Distinct(g)}}

\* The feed for the worker pool: PoolAnns announcements that all match.
PoolFeeds == {[i \in 1..PoolAnns |-> AnnDiv1]}

\* The command line of the worker-pool run.
PoolCriteria == {[keywords |-> << <<"d", "i", "v">> >>, tickers |-> <<>>]}

(***************************************************************************)
(* Matcher (internal/asx/asx.go).                                          *)
(***************************************************************************)
\* the elements of a sequence
Range(s) == {s[i] : i \in 1..Len(s)}

isTickerMatch(ticker, tickers) ==
    IF Len(tickers) = 0 THEN FALSE ELSE ticker \in Range(tickers)

\* findKeywords searching the title and the text as they are
findKeywordsCaseSensitive(title, text, keywords) ==
    LET hit(kw) == Contains(title, kw) \/ Contains(text, kw)
    IN  IF Len(keywords) = 0 THEN <<>> ELSE SelectSeq(keywords, hit)

findKeywords(title, text, keywords) ==
    LET lowerTitle == ToLower(title)
        lowerText == ToLower(text)
        hit(kw) == Contains(lowerTitle, kw) \/ Contains(lowerText, kw)
    IN  IF Len(keywords) = 0 THEN <<>> ELSE SelectSeq(keywords, hit)

\* normalizePlaceholder handing the keywords on as they are
normalizePlaceholderKeeps(kws) ==
    [finalKeywords |-> kws,
     isPlaceholder |-> Len(kws) = 1 /\ kws[1] = TickerMatchPlaceholder]

normalizePlaceholder(kws) ==
    IF Len(kws) = 1 /\ kws[1] = TickerMatchPlaceholder
    THEN [finalKeywords |-> <<>>, isPlaceholder |-> TRUE]
    ELSE [finalKeywords |-> kws, isPlaceholder |-> FALSE]

\* const contextSize = 50
contextSize == 50

\* strings.Index: the offset of the first occurrence, -1 when there is none
Index(s, sub) ==
    IF Contains(s, sub)
    THEN CHOOSE i \in 0..(Len(s) - Len(sub)) :
            /\ SubSeq(s, i + 1, i + Len(sub)) = sub
            /\ \A j \in 0..(i - 1) : SubSeq(s, j + 1, j + Len(sub)) # sub
    ELSE -1

\* strings.ReplaceAll(snippet, "\n", " ")
ReplaceNewlines(s) == [i \in 1..Len(s) |-> IF s[i] = "\n" THEN " " ELSE s[i]]

Max(a, b) == IF a > b THEN a ELSE b
Min(a, b) == IF a < b THEN a ELSE b

Ellipsis == <<".", ".", ".">>

getSnippet(fullText, keyword) ==
    LET lowerText == ToLower(fullText)
        lowerKeyword == ToLower(keyword)
        index == Index(lowerText, lowerKeyword)
        start == Max(index - contextSize, 0)
        end == Min(index + Len(lowerKeyword) + contextSize, Len(fullText))
        snippet == SubSeq(fullText, start + 1, end)
        front == IF start > 0 THEN Ellipsis \o <<" ">> \o snippet ELSE snippet
        both == IF end < Len(fullText) THEN front \o <<" ">> \o Ellipsis ELSE front
    IN  IF index = -1 THEN <<>> ELSE ReplaceNewlines(both)

\* " (Match found in title)"
FoundInTitle == <<" ", "(", "M", "a", "t", "c", "h", " ", "f", "o", "u", "n", "d", " ", "i", "n", " ", "t", "i", "t", "l", "e", ")">>

\* fmt.Sprintf("Match found based on ticker %s only.", ticker)
TickerOnlySnippet(ticker) ==
    <<"M", "a", "t", "c", "h", " ", "f", "o", "u", "n", "d", " ", "b", "a", "s", "e", "d", " ", "o", "n", " ", "t", "i", "c", "k", "e", "r", " ">>
        \o ticker \o <<" ", "o", "n", "l", "y", ".">>

buildContextSnippet(ann, text, keywords, isPlaceholderMatch) ==
    IF Len(keywords) > 0
    THEN IF Contains(ToLower(ann.Title), keywords[1])
         THEN ann.Title \o FoundInTitle
         ELSE getSnippet(text, keywords[1])
    ELSE IF isPlaceholderMatch THEN TickerOnlySnippet(ann.Ticker)
    ELSE <<>>

(***************************************************************************)
(* History store (package history).                                        *)
(***************************************************************************)
\* map[string]map[string]bool with no key
EmptyMap == [k \in {} |-> {}]

\* the nil map: it reads as a map with no key (no entity key is the empty
\* string) and an assignment to an entry of it panics
NilMap == [k \in {<<>>} |-> EmptyMap]

\* History{ReportDate, ReportedMatches}
FreshHistory(date) == [ReportDate |-> date, ReportedMatches |-> EmptyMap]

\* key := ann.Ticker + "|" + ann.Title
EntityKey(ann) == ann.Ticker \o <<"|">> \o ann.Title

\* reportedKws[kw] on a map[string]bool: false when the key is absent
Reported(rm, key, kw) ==
    /\ key \in DOMAIN rm
    /\ kw \in DOMAIN rm[key]
    /\ rm[key][kw]

\* FilterNewMatches with the test of "exists" inverted
FilterNewMatchesInverted(h, ann, foundKeywords, tickerMatch) ==
    LET key == EntityKey(ann)
        rm == h.ReportedMatches
        exists == key \in DOMAIN rm
        isNew(kw) == ~Reported(rm, key, kw)
    IN  IF tickerMatch /\ Len(foundKeywords) = 0
        THEN IF exists /\ Reported(rm, key, TickerMatchPlaceholder)
             THEN <<>>
             ELSE <<TickerMatchPlaceholder>>
        ELSE IF Len(foundKeywords) = 0 THEN <<>>
        ELSE IF exists THEN foundKeywords
        ELSE SelectSeq(foundKeywords, isNew)

\* FilterNewMatches without the sentinel for a ticker match
FilterNewMatchesNoSentinel(h, ann, foundKeywords, tickerMatch) ==
    LET key == EntityKey(ann)
        rm == h.ReportedMatches
        isNew(kw) == ~Reported(rm, key, kw)
    IN  IF Len(foundKeywords) = 0 THEN <<>>
        ELSE IF key \notin DOMAIN rm THEN foundKeywords
        ELSE SelectSeq(foundKeywords, isNew)

FilterNewMatches(h, ann, foundKeywords, tickerMatch) ==
    LET key == EntityKey(ann)
        rm == h.ReportedMatches
        exists == key \in DOMAIN rm
        isNew(kw) == ~Reported(rm, key, kw)
    IN  IF tickerMatch /\ Len(foundKeywords) = 0
        THEN IF exists /\ Reported(rm, key, TickerMatchPlaceholder)
             THEN <<>>
             ELSE <<TickerMatchPlaceholder>>
        ELSE IF Len(foundKeywords) = 0 THEN <<>>
        ELSE IF ~exists THEN foundKeywords
        ELSE SelectSeq(foundKeywords, isNew)

\* applyHistoryFilter that does not call the filter
applyHistoryFilterSkipped(h, ann, foundKeywords, tickerMatch) ==
    IF tickerMatch /\ Len(foundKeywords) = 0
    THEN <<TickerMatchPlaceholder>>
    ELSE foundKeywords

applyHistoryFilter(h, ann, foundKeywords, tickerMatch) ==
    LET historyKeywords ==
            IF tickerMatch /\ Len(foundKeywords) = 0
            THEN <<TickerMatchPlaceholder>>
            ELSE foundKeywords
    IN  FilterNewMatches(h, ann, historyKeywords, tickerMatch)

\* RecordMatches without the branch that stores the placeholder
MatchTokensKeywordsOnly(m) == Range(m.KeywordsFound)

\* the tokens RecordMatches stores for one Match
MatchTokens(m) ==
    Range(m.KeywordsFound) \cup
        (IF Len(m.KeywordsFound) = 0 /\ m.TickerMatched
         THEN {TickerMatchPlaceholder} ELSE {})

\* the loop body replacing the set of the entity key
RecordOneReplaces(rm, m) ==
    LET key == EntityKey(m.Announcement)
    IN  [k \in DOMAIN rm \cup {key} |->
            IF k = key THEN [t \in MatchTokens(m) |-> TRUE] ELSE rm[k]]

\* one iteration of the loop of RecordMatches
RecordOne(rm, m) ==
    LET key == EntityKey(m.Announcement)
        old == IF key \in DOMAIN rm THEN rm[key] ELSE EmptyMap
        new == [t \in DOMAIN old \cup MatchTokens(m) |->
                    IF t \in MatchTokens(m) THEN TRUE ELSE old[t]]
    IN  [k \in DOMAIN rm \cup {key} |-> IF k = key THEN new ELSE rm[k]]

RECURSIVE RecordAll(_, _)
RecordAll(rm, matches) ==
    IF Len(matches) = 0 THEN rm
    ELSE RecordAll(RecordOne(rm, Head(matches)), Tail(matches))

\* json.MarshalIndent(m.history): an object is its set of members; a nil
\* map is written as null, which reads like a member that is not there
MarshalHistory(h) ==
    IF h.ReportedMatches = NilMap
    THEN [ReportDate |-> h.ReportDate]
    ELSE [ReportDate |-> h.ReportDate,
          ReportedMatches |->
             {<<k, {<<t, h.ReportedMatches[k][t]>> : t \in DOMAIN h.ReportedMatches[k]}>> :
                 k \in DOMAIN h.ReportedMatches}]

\* json.Unmarshal into a struct whose map field does not match the document
UnmarshalHistoryDateOnly(j) ==
    [ReportDate |-> j.ReportDate, ReportedMatches |-> EmptyMap]

\* json.Unmarshal(data, &loadedHistory) into the zero History: a document
\* without the member ReportedMatches, or with null for it, leaves the map nil
UnmarshalHistory(j) ==
    IF "ReportedMatches" \notin DOMAIN j
    THEN [ReportDate |-> j.ReportDate, ReportedMatches |-> NilMap]
    ELSE LET keys == {p[1] : p \in j.ReportedMatches}
             members(k) == (CHOOSE p \in j.ReportedMatches : p[1] = k)[2]
             value(k, t) == (CHOOSE q \in members(k) : q[1] = t)[2]
         IN  [ReportDate |-> j.ReportDate,
              ReportedMatches |->
                 [k \in keys |-> [t \in {q[1] : q \in members(k)} |-> value(k, t)]]]

\* The history file: absent, a JSON document, or the torn remains of a
\* failed write.
NoFile == [kind |-> "missing", data |-> MarshalHistory(FreshHistory(0))]
TornFile == [kind |-> "torn", data |-> MarshalHistory(FreshHistory(0))]
JsonFile(h) == [kind |-> "json", data |-> MarshalHistory(h)]

\* a JSON document that holds the date and no map of matches (the member is
\* missing or null)
DateOnlyFile(date) == [kind |-> "json", data |-> [ReportDate |-> date]]

\* loadHistory without the comparison of the dates
loadHistoryKeepsStale(f, date, readFails) ==
    IF f.kind = "missing" \/ readFails THEN FreshHistory(date)
    ELSE IF f.kind = "torn" THEN FreshHistory(date)
    ELSE UnmarshalHistory(f.data)

\* loadHistory returning at a read error before the history is stamped
loadHistoryUnstamped(f, date, readFails) ==
    IF f.kind = "missing" \/ readFails THEN FreshHistory(0)
    ELSE IF f.kind = "torn" THEN FreshHistory(date)
    ELSE LET loadedHistory == UnmarshalHistory(f.data)
         IN  IF loadedHistory.ReportDate = date THEN loadedHistory
             ELSE FreshHistory(date)

\* loadHistory: the in-memory history after NewManager
loadHistory(f, date, readFails) ==
    IF f.kind = "missing" \/ readFails THEN FreshHistory(date)
    ELSE IF f.kind = "torn" THEN FreshHistory(date)
    ELSE LET loadedHistory == UnmarshalHistory(f.data)
         IN  IF loadedHistory.ReportDate = date
             THEN loadedHistory
             ELSE FreshHistory(date)

\* os.WriteFile truncates and then writes: it succeeds, fails before the
\* file is touched, or fails midway and leaves a torn file.
WriteOutcomes == {"ok", "unchanged", "torn"}

\* saveHistory: the file after the write
saveHistory(f, h, outcome) ==
    CASE outcome = "ok" -> JsonFile(h)
      [] outcome = "unchanged" -> f
      [] OTHER -> TornFile

(***************************************************************************)
(* State.                                                                  *)
(***************************************************************************)
VARIABLES
    today,            \* time.Now().In(reportLocation), as a day number
    file,             \* the history file on disk
    faults,           \* environment failures still to come
    runsLeft,         \* invocations of main still to come
    criteria,         \* the command line: keywords and tickers
    pc,               \* position of main: off scrape dispatch collect report record
    history,          \* Manager.history
    feed,             \* announcements returned by ScrapeDailyFeed
    next,             \* announcements already dispatched by the loop
    sem,              \* tokens in the semaphore channel
    wg,               \* the WaitGroup counter
    workers,          \* bag of worker goroutines, one per dispatched announcement
    closer,           \* the goroutine that waits and closes matchChan
    chanClosed,       \* matchChan is closed
    annotatedMatches, \* the slice the collector appends to
    processedCount,   \* the progress counter
    alerts,           \* bag of <<day, entity key, token>> handed to the reporter
    recordCalls,      \* calls of RecordMatches in the current (or last) run
    lastExit,         \* how the last run ended: none running ok fatal
    startDay,         \* the day on which the current run loaded the history
    persisted         \* <<day, entity key, token, intact>>: tokens of matches that
                      \* a successful save wrote under day; intact until a
                      \* later read or write of the file fails

envVars == <<today, runsLeft, criteria>>
ghostVars == <<startDay, persisted>>

\* a read or write of the history file failed: nothing persisted is intact
Spoiled == {<<e[1], e[2], e[3], FALSE>> : e \in persisted}
poolVars == <<feed, next, sem, wg, workers, closer, chanClosed, annotatedMatches,
              processedCount>>

\* FetchAnnouncements (the paginated feed)
VARIABLES
    upstream,         \* the pages the feed server holds, in order
    params,           \* FetchParams: Date given or not, MaxResults
    fpc,              \* position of FetchAnnouncements: idle loop returned handled
    page,             \* the page requested in this iteration
    allAnnouncements, \* len(allAnnouncements)
    fetchResult       \* what FetchAnnouncements returned: length and error

fetchVars == <<upstream, params, fpc, page, allAnnouncements, fetchResult>>

\* the fetch variables at rest
FetchIdle ==
    /\ upstream = <<>>
    /\ params = [dateGiven |-> FALSE, MaxResults |-> 0]
    /\ fpc = "idle"
    /\ page = 0
    /\ allAnnouncements = 0
    /\ fetchResult = [n |-> 0, err |-> FALSE]

\* extractTextFromPDF (caller, helper goroutine, pdftotext subprocess)
VARIABLES
    epc,              \* position of the caller: idle select returned
    helper,           \* position of the helper goroutine, and its pending send
    errChan,          \* errChan, a channel of capacity 1
    resultChan,       \* resultChan, a channel of capacity 1
    deadline,         \* the timeout of ctx has elapsed
    cancelled,        \* the deferred cancel() has run
    proc,             \* the pdftotext subprocess: none running exited killed
    toolOutput,       \* exit status and stdout of a subprocess that exited
    tmpExists,        \* the temporary file exists on disk
    extractResult,    \* what extractTextFromPDF returned
    lateTool          \* the subprocess was running when the timeout elapsed

extractVars ==
    <<epc, helper, errChan, resultChan, deadline, cancelled, proc, toolOutput,
      tmpExists, extractResult, lateTool>>

\* the helper goroutine at a position, with nothing to send
At(pos) == [at |-> pos, val |-> <<>>, then |-> ""]

\* the extraction variables at rest
ExtractIdle ==
    /\ epc = "idle"
    /\ helper = At("none")
    /\ errChan = <<>>
    /\ resultChan = <<>>
    /\ deadline = FALSE
    /\ cancelled = FALSE
    /\ proc = "none"
    /\ toolOutput = [ok |-> TRUE, text |-> <<>>]
    /\ tmpExists = FALSE
    /\ extractResult = [kind |-> "none", err |-> "", text |-> <<>>]
    /\ lateTool = FALSE

\* The history manager called from several goroutines
VARIABLES
    mutex,            \* Manager.mutex: 0 when unlocked, else the goroutine that locked it
    goroutines        \* the callers of the manager: their call and position in it

lockVars == <<mutex, goroutines>>

\* no caller of the manager but main
LockIdle ==
    /\ mutex = 0
    /\ goroutines = <<>>

\* getPDFURLFromDoURL on one announcement page
VARIABLES
    body,             \* the response body of the GET, as a sequence of lexemes
    rpc,              \* position of the worker: idle resolved
    resolveResult,    \* what getPDFURLFromDoURL returned: url and err
    itemOutcome       \* what became of the item: none Failed Extracting

resolveVars == <<body, rpc, resolveResult, itemOutcome>>

\* no resolution under way
ResolveIdle ==
    /\ body = <<>>
    /\ rpc = "idle"
    /\ resolveResult = [url |-> <<>>, err |-> "", warned |-> FALSE]
    /\ itemOutcome = "none"

\* main calling ScrapeDailyFeed
VARIABLES
    filterPriceSensitive, \* the flag -price-sensitive
    scrapePrevious,       \* the flag -previous
    todayPage,            \* the rows of todayAnns.do
    previousPage,         \* the rows of prevBusDayAnns.do
    spc,                  \* position of main: flags scraped
    url,                  \* the page ScrapeDailyFeed read: none today previous
    announcements         \* what ScrapeDailyFeed returned

feedVars ==
    <<filterPriceSensitive, scrapePrevious, todayPage, previousPage, spc, url,
      announcements>>

\* no feed selection under way
FeedIdle ==
    /\ filterPriceSensitive = FALSE
    /\ scrapePrevious = FALSE
    /\ todayPage = <<>>
    /\ previousPage = <<>>
    /\ spc = "flags"
    /\ url = "none"
    /\ announcements = <<>>

\* filterAndAnnotate on one announcement whose text is given
VARIABLES
    doc,              \* the announcement
    docText,          \* the text extracted from its document
    snpc,             \* position of the worker: text built
    built             \* the worker after filterAndAnnotate, with its Match

snippetVars == <<doc, docText, snpc, built>>

\* no snippet under way
SnippetIdle ==
    /\ doc = <<>>
    /\ docText = <<>>
    /\ snpc = "text"
    /\ built = <<>>

\* the state of the components that main does not touch directly
\* runAIAnalysis at the end of filterAndAnnotate
VARIABLES
    aiIn,             \* the API key is set, what the historic feed and the summary call do
    apc,              \* position of filterAndAnnotate: idle matched returned panic
    aiOut             \* what filterAndAnnotate returned: the Match and the analysis

annotateVars == <<aiIn, apc, aiOut>>

\* no annotation under way
AnnotateIdle ==
    /\ aiIn = [keySet |-> FALSE, fetchFails |-> FALSE, historic |-> <<>>,
               summaryFails |-> FALSE, ticker |-> <<"A">>]
    /\ apc = "idle"
    /\ aiOut = [match |-> FALSE, analysis |-> "nil"]

compVars ==
    <<fetchVars, extractVars, lockVars, resolveVars, feedVars, snippetVars, annotateVars>>

\* every variable of the model
vars ==
    <<today, file, faults, runsLeft, criteria, pc, history, feed, next, sem, wg,
      workers, closer, chanClosed, annotatedMatches, processedCount, alerts,
      recordCalls, lastExit, startDay, persisted, compVars>>

\* A worker goroutine: its copy of the announcement, its position, the
\* extracted text, the outcome of its pipeline and the Match it built.
Worker(ann) ==
    [a |-> ann, st |-> "Resolving", text |-> <<>>, out |-> "none", m |-> <<>>]

\* a Match that carries the title in lower case
MatchLowerTitle(ann, kws, tickerMatch, context) ==
    [Announcement |-> [ann EXCEPT !.Title = ToLower(@)], KeywordsFound |-> kws,
     TickerMatched |-> tickerMatch, Context |-> context]

\* types.Match
Match(ann, kws, tickerMatch, context) ==
    [Announcement |-> ann, KeywordsFound |-> kws, TickerMatched |-> tickerMatch,
     Context |-> context]

One(w) == SetToBag({w})

\* the bag with one copy of worker w replaced by v
Replace(w, v) == (workers (-) One(w)) (+) One(v)

InitOn(runs, choices, files) ==
    /\ today = 1
    /\ file \in files
    /\ faults = MaxFaults
    /\ runsLeft = runs
    /\ criteria \in choices
    /\ pc = "off"
    /\ history = FreshHistory(0)
    /\ feed = <<>>
    /\ next = 0
    /\ sem = 0
    /\ wg = 0
    /\ workers = EmptyBag
    /\ closer = "none"
    /\ chanClosed = FALSE
    /\ annotatedMatches = <<>>
    /\ processedCount = 0
    /\ alerts = EmptyBag
    /\ recordCalls = 0
    /\ lastExit = "none"
    /\ startDay = 0
    /\ persisted = {}

\* before the first run there is no history file
InitWith(runs, choices) == InitOn(runs, choices, {NoFile})

\* the components at rest
CompIdle ==
    FetchIdle /\ ExtractIdle /\ LockIdle /\ ResolveIdle /\ FeedIdle /\ SnippetIdle /\ AnnotateIdle

Init == InitWith(MaxRuns, CriteriaChoices) /\ CompIdle

\* The process ends: its memory is gone.
ExitProcess(how) ==
    /\ pc' = "off"
    /\ lastExit' = how
    /\ startDay' = 0
    /\ history' = FreshHistory(0)
    /\ feed' = <<>>
    /\ next' = 0
    /\ sem' = 0
    /\ wg' = 0
    /\ workers' = EmptyBag
    /\ closer' = "none"
    /\ chanClosed' = FALSE
    /\ annotatedMatches' = <<>>
    /\ processedCount' = 0

\* An environment failure is taken from the budget.
Fault(failed) ==
    /\ failed => faults > 0
    /\ faults' = IF failed THEN faults - 1 ELSE faults

(***************************************************************************)
(* main (cmd/scraper/main.go).                                             *)
(***************************************************************************)
\* The calendar day changes, at any moment.
Tick ==
    /\ today < MaxDay
    /\ today' = today + 1
    /\ UNCHANGED <<compVars, file, faults, runsLeft, criteria, pc, history, poolVars, alerts,
                   recordCalls, lastExit, ghostVars>>

\* main up to history.NewManager, which loads the history.
Start ==
    /\ pc = "off"
    /\ runsLeft > 0
    /\ runsLeft' = runsLeft - 1
    /\ \E readFails \in BOOLEAN :
          /\ readFails => file.kind # "missing"
          /\ Fault(readFails)
          /\ history' = loadHistory(file, today, readFails)
          /\ persisted' = IF readFails THEN Spoiled ELSE persisted
    /\ pc' = "scrape"
    /\ recordCalls' = 0
    /\ lastExit' = "running"
    /\ startDay' = today
    /\ UNCHANGED <<compVars, today, file, criteria, poolVars, alerts>>

\* NewManager fails (MkdirAll or LoadLocation): os.Exit(1).
StartFails ==
    /\ pc = "off"
    /\ runsLeft > 0
    /\ runsLeft' = runsLeft - 1
    /\ Fault(TRUE)
    /\ recordCalls' = 0
    /\ ExitProcess("fatal")
    /\ UNCHANGED <<compVars, today, file, criteria, alerts, persisted>>

\* RecordMatches(matches): the loop, then saveHistory, which stamps the
\* date of the moment of the save.
RecordMatches(matches) ==
    \E outcome \in WriteOutcomes :
        LET recorded == [ReportDate |-> today,
                         ReportedMatches |-> RecordAll(history.ReportedMatches, matches)]
            written == UNION {{<<today, EntityKey(m.Announcement), t, TRUE>> :
                                  t \in MatchTokens(m)} : m \in Range(matches)}
        IN  /\ Fault(outcome # "ok")
            /\ history' = recorded
            /\ file' = saveHistory(file, recorded, outcome)
            /\ persisted' = IF outcome = "ok" THEN persisted \cup written ELSE Spoiled
            /\ recordCalls' = recordCalls + 1
            /\ pc' = "done"

\* ScrapeDailyFeed fails: os.Exit(1).
ScrapeFails ==
    /\ pc = "scrape"
    /\ Fault(TRUE)
    /\ ExitProcess("fatal")
    /\ UNCHANGED <<compVars, envVars, file, alerts, recordCalls, persisted>>

\* ScrapeDailyFeed returns no announcement: RecordMatches(nil) and return.
ScrapeEmpty(feeds) ==
    /\ pc = "scrape"
    /\ <<>> \in feeds
    /\ RecordMatches(<<>>)
    /\ UNCHANGED <<compVars, envVars, poolVars, alerts, lastExit, startDay>>

\* ScrapeDailyFeed returns announcements.
Scrape(feeds) ==
    /\ pc = "scrape"
    /\ \E f \in feeds :
          /\ Len(f) > 0
          /\ feed' = f
    /\ pc' = "dispatch"
    /\ UNCHANGED <<compVars, envVars, file, faults, history, next, sem, wg, workers, closer,
                   chanClosed, annotatedMatches, processedCount, alerts,
                   recordCalls, lastExit, ghostVars>>

(***************************************************************************)
(* ProcessAnnouncements (internal/asx/asx.go).                             *)
(***************************************************************************)
\* the semaphore one token too wide
SemFreeOffByOne == sem <= SemCap

\* One iteration of the dispatch loop: wg.Add(1); sem <- struct{}{}; go.
\* The send on sem blocks while the semaphore is full.
SemFree == sem < SemCap

Dispatch ==
    /\ pc = "dispatch"
    /\ next < Len(feed)
    /\ SemFree
    /\ wg' = wg + 1
    /\ sem' = sem + 1
    /\ workers' = workers (+) One(Worker(feed[next + 1]))
    /\ next' = next + 1
    /\ UNCHANGED <<compVars, envVars, file, faults, pc, history, feed, closer, chanClosed,
                   annotatedMatches, processedCount, alerts, recordCalls, lastExit, ghostVars>>

\* The loop is over: the closer goroutine starts and main begins to range
\* over matchChan.
StartCollector ==
    /\ pc = "dispatch"
    /\ next = Len(feed)
    /\ closer' = "waiting"
    /\ pc' = "collect"
    /\ UNCHANGED <<compVars, envVars, file, faults, history, feed, next, sem, wg, workers,
                   chanClosed, annotatedMatches, processedCount, alerts,
                   recordCalls, lastExit, ghostVars>>

\* A worker counts itself and resolves the document reference
\* (getPDFURLFromDoURL); an error ends its pipeline.
Resolve(w) ==
    /\ w.st = "Resolving"
    /\ processedCount' = processedCount + 1
    /\ \E failed \in BOOLEAN :
          /\ Fault(failed)
          /\ workers' = Replace(w,
                IF failed
                THEN [w EXCEPT !.st = "Releasing", !.out = "Failed"]
                ELSE [w EXCEPT !.st = "Extracting",
                               !.a = [w.a EXCEPT !.PDFURL = DirectURL(w.a.PDFURL)]])
    /\ UNCHANGED <<compVars, envVars, file, pc, history, feed, next, sem, wg, closer,
                   chanClosed, annotatedMatches, alerts, recordCalls, lastExit, ghostVars>>

\* filterAndAnnotate going on after an extraction error
ExtractResultGoesOn(w, failed) ==
    IF failed
    THEN [w EXCEPT !.st = "Matching", !.out = "Failed"]
    ELSE [w EXCEPT !.st = "Matching", !.text = DocText(w.a.PDFURL.doc)]

\* extractTextFromPDF: the text of the document, or an error (download,
\* pdftotext failure, blank output, timeout), which ends the pipeline.
ExtractResult(w, failed) ==
    IF failed
    THEN [w EXCEPT !.st = "Releasing", !.out = "Failed"]
    ELSE [w EXCEPT !.st = "Matching", !.text = DocText(w.a.PDFURL.doc)]

Extract(w) ==
    /\ w.st = "Extracting"
    /\ \E failed \in BOOLEAN :
          /\ Fault(failed)
          /\ workers' = Replace(w, ExtractResult(w, failed))
    /\ UNCHANGED <<compVars, envVars, file, pc, history, feed, next, sem, wg, closer,
                   chanClosed, annotatedMatches, processedCount, alerts,
                   recordCalls, lastExit, ghostVars>>

\* filterAndAnnotate building a Match of the keywords found without asking
\* the history
filterAndAnnotateUnfiltered(w) ==
    LET tickerMatch == isTickerMatch(w.a.Ticker, criteria.tickers)
        foundKeywords == findKeywords(w.a.Title, w.text, criteria.keywords)
    IN  IF Len(foundKeywords) = 0 /\ ~tickerMatch
        THEN [w EXCEPT !.st = "Releasing", !.out = "NoMatch"]
        ELSE [w EXCEPT !.st = "Sending", !.out = "Emitted",
                       !.m = <<Match(w.a, foundKeywords, tickerMatch,
                                     buildContextSnippet(w.a, w.text, foundKeywords,
                                                         Len(foundKeywords) = 0))>>]

\* The rest of filterAndAnnotate: match, history filter, build the Match.
filterAndAnnotate(w) ==
    LET tickerMatch == isTickerMatch(w.a.Ticker, criteria.tickers)
        foundKeywords == findKeywords(w.a.Title, w.text, criteria.keywords)
        newKeywords == applyHistoryFilter(history, w.a, foundKeywords, tickerMatch)
        finalKeywords == normalizePlaceholder(newKeywords).finalKeywords
        isPlaceholderMatch == normalizePlaceholder(newKeywords).isPlaceholder
        contextSnippet ==
            buildContextSnippet(w.a, w.text, finalKeywords, isPlaceholderMatch)
    IN  IF Len(foundKeywords) = 0 /\ ~tickerMatch
        THEN [w EXCEPT !.st = "Releasing", !.out = "NoMatch"]
        ELSE IF Len(newKeywords) = 0
        THEN [w EXCEPT !.st = "Releasing", !.out = "Suppressed"]
        ELSE [w EXCEPT !.st = "Sending", !.out = "Emitted",
                       !.m = <<Match(w.a, finalKeywords, tickerMatch, contextSnippet)>>]

\* the worker recording its Match in the history as soon as it is built
MatchAndFilterRecords(w) ==
    /\ w.st = "Matching"
    /\ workers' = Replace(w, filterAndAnnotate(w))
    /\ history' = [history EXCEPT !.ReportedMatches =
                      IF filterAndAnnotate(w).m = <<>> THEN @
                      ELSE RecordOne(@, filterAndAnnotate(w).m[1])]
    /\ UNCHANGED <<compVars, envVars, file, faults, pc, feed, next, sem, wg, closer,
                   chanClosed, annotatedMatches, processedCount, alerts,
                   recordCalls, lastExit, ghostVars>>

MatchAndFilter(w) ==
    /\ w.st = "Matching"
    /\ workers' = Replace(w, filterAndAnnotate(w))
    /\ UNCHANGED <<compVars, envVars, file, faults, pc, history, feed, next, sem, wg, closer,
                   chanClosed, annotatedMatches, processedCount, alerts,
                   recordCalls, lastExit, ghostVars>>

\* the collector keeping only the last value received
CollectedOverwrites(matches, m) == <<m>>

\* matchChan is unbuffered: a worker's send completes only together with a
\* receive of the collector loop, which appends the value.
Collected(matches, m) == Append(matches, m)

SendAndCollect(w) ==
    /\ pc = "collect"
    /\ ~chanClosed
    /\ w.st = "Sending"
    /\ annotatedMatches' = Collected(annotatedMatches, w.m[1])
    /\ workers' = Replace(w, [w EXCEPT !.st = "Releasing"])
    /\ UNCHANGED <<compVars, envVars, file, faults, pc, history, feed, next, sem, wg, closer,
                   chanClosed, processedCount, alerts, recordCalls, lastExit, ghostVars>>

\* defer func() { <-sem }()
Release(w) ==
    /\ w.st = "Releasing"
    /\ sem' = sem - 1
    /\ workers' = Replace(w, [w EXCEPT !.st = "Exiting"])
    /\ UNCHANGED <<compVars, envVars, file, faults, pc, history, feed, next, wg, closer,
                   chanClosed, annotatedMatches, processedCount, alerts,
                   recordCalls, lastExit, ghostVars>>

\* defer wg.Done()
Done(w) ==
    /\ w.st = "Exiting"
    /\ wg' = wg - 1
    /\ workers' = Replace(w, [w EXCEPT !.st = "Done"])
    /\ UNCHANGED <<compVars, envVars, file, faults, pc, history, feed, next, sem, closer,
                   chanClosed, annotatedMatches, processedCount, alerts,
                   recordCalls, lastExit, ghostVars>>

WorkerStep ==
    \E w \in BagToSet(workers) :
        \/ Resolve(w)
        \/ Extract(w)
        \/ MatchAndFilter(w)
        \/ SendAndCollect(w)
        \/ Release(w)
        \/ Done(w)

\* the closer not waiting for the last worker
WaitReturnsEarly == wg <= 1

\* wg.Wait() has returned
WaitReturns == wg = 0

\* go func() { wg.Wait(); close(matchChan) }()
CloseChannel ==
    /\ closer = "waiting"
    /\ WaitReturns
    /\ closer' = "closed"
    /\ chanClosed' = TRUE
    /\ UNCHANGED <<compVars, envVars, file, faults, pc, history, feed, next, sem, wg, workers,
                   annotatedMatches, processedCount, alerts, recordCalls, lastExit, ghostVars>>

\* The range over matchChan ends: ProcessAnnouncements returns.
Return ==
    /\ pc = "collect"
    /\ chanClosed
    /\ pc' = "report"
    /\ UNCHANGED <<compVars, envVars, file, faults, history, poolVars, alerts, recordCalls,
                   lastExit, ghostVars>>

(***************************************************************************)
(* main after ProcessAnnouncements.                                        *)
(***************************************************************************)
\* the <<day, key, token>> triples of the matches handed to the reporter
RECURSIVE AlertsOf(_, _)
AlertsOf(day, matches) ==
    IF Len(matches) = 0 THEN EmptyBag
    ELSE LET m == Head(matches)
         IN  SetToBag({<<day, EntityKey(m.Announcement), t>> : t \in MatchTokens(m)})
                (+) AlertsOf(day, Tail(matches))

\* main going on to RecordMatches without a call of the reporter
ReportSkipped ==
    /\ pc = "report"
    /\ pc' = "record"
    /\ UNCHANGED <<compVars, envVars, file, faults, history, poolVars, alerts, recordCalls,
                   lastExit, ghostVars>>

\* notify.ReportMatches and notify.EmailMatches, when there is a match
Report ==
    /\ pc = "report"
    /\ alerts' = alerts (+) AlertsOf(today, annotatedMatches)
    /\ pc' = "record"
    /\ UNCHANGED <<compVars, envVars, file, faults, history, poolVars, recordCalls, lastExit, ghostVars>>

\* historyManager.RecordMatches(coreMatches)
Record ==
    /\ pc = "record"
    /\ RecordMatches(annotatedMatches)
    /\ UNCHANGED <<compVars, envVars, poolVars, alerts, lastExit, startDay>>

\* main returns
Exit ==
    /\ pc = "done"
    /\ ExitProcess("ok")
    /\ UNCHANGED <<compVars, envVars, file, faults, alerts, recordCalls, persisted>>

\* The process is ended from outside (a signal, a power cut) after the
\* reporter has returned and before RecordMatches is called.
Interrupt ==
    /\ pc = "record"
    /\ ExitProcess("killed")
    /\ UNCHANGED <<compVars, envVars, file, faults, alerts, recordCalls, persisted>>

(***************************************************************************)
(* FetchAnnouncements (package asx, the paginated feed).                   *)
(* A list of announcements is kept by its length: append adds lengths and  *)
(* a[:n] has length n.                                                     *)
(***************************************************************************)
\* One page of the feed server: how many of its items have a document key,
\* a date that parses and the target date (good), no document key (noKey),
\* a date that does not parse (badDate), another date (otherDate).
UpstreamPage(good, noKey, badDate, otherDate) ==
    [good |-> good, noKey |-> noKey, badDate |-> badDate, otherDate |-> otherDate]

\* len(respData.Data.Items)
Items(p) == p.good + p.noKey + p.badDate + p.otherDate

EmptyPage == UpstreamPage(0, 0, 0, 0)

\* The pages a feed server may hold: full pages (with and without items
\* that the loop of fetchAnnouncements skips) and a short last page.
PageKinds ==
    { UpstreamPage(PageSize, 0, 0, 0),
      UpstreamPage(PageSize - 1, 1, 0, 0),
      UpstreamPage(PageSize - 2, 0, 1, 1),
      UpstreamPage(60, 0, 0, 0) }

Upstreams == UNION {[1..n -> PageKinds] : n \in 0..MaxPages}

\* FetchParams: Date given or not, MaxResults (0 = unlimited)
ParamChoices ==
    {[dateGiven |-> d, MaxResults |-> m] : d \in BOOLEAN, m \in {0, 40, 150}}

\* the response to the request of page number n (from 0)
PageAt(n) == IF n + 1 <= Len(upstream) THEN upstream[n + 1] ELSE EmptyPage

\* fetchAnnouncements(url, targetDate): the announcements kept of a page and
\* hasMore
fetchAnnouncements(p, dateGiven) ==
    [announcements |-> p.good + (IF dateGiven THEN 0 ELSE p.otherDate),
     hasMore |-> Items(p) > 0]

\* FetchAnnouncements keeping the pages it had when a page fails
FetchErrorKeepsPages(all) == [n |-> all, err |-> TRUE]

\* return nil, fmt.Errorf("failed to fetch announcements page ...")
FetchError(all) == [n |-> 0, err |-> TRUE]

\* main calls the fetch
FetchBegin ==
    /\ pc = "scrape"
    /\ fpc = "idle"
    /\ fpc' = "loop"
    /\ page' = 0
    /\ allAnnouncements' = 0
    /\ UNCHANGED <<envVars, file, faults, pc, history, poolVars, alerts, recordCalls,
                   lastExit, ghostVars, upstream, params, fetchResult, extractVars, lockVars, resolveVars, feedVars, snippetVars, annotateVars>>

\* One iteration of the loop of FetchAnnouncements.
FetchPage ==
    /\ fpc = "loop"
    /\ \E failed \in BOOLEAN :
          /\ Fault(failed)
          /\ LET got == fetchAnnouncements(PageAt(page), params.dateGiven)
                 all == allAnnouncements + got.announcements
             IN  IF failed
                 THEN /\ fetchResult' = FetchError(allAnnouncements)
                      /\ fpc' = "returned"
                      /\ UNCHANGED <<page, allAnnouncements>>
                 ELSE IF ~got.hasMore \/ got.announcements < PageSize
                 THEN /\ fetchResult' = [n |-> all, err |-> FALSE]
                      /\ fpc' = "returned"
                      /\ allAnnouncements' = all
                      /\ UNCHANGED page
                 ELSE IF params.MaxResults > 0 /\ all >= params.MaxResults
                 THEN /\ fetchResult' = [n |-> params.MaxResults, err |-> FALSE]
                      /\ fpc' = "returned"
                      /\ allAnnouncements' = params.MaxResults
                      /\ UNCHANGED page
                 ELSE /\ allAnnouncements' = all
                      /\ page' = page + 1
                      /\ UNCHANGED <<fpc, fetchResult>>
    /\ UNCHANGED <<envVars, file, pc, history, poolVars, alerts, recordCalls,
                   lastExit, ghostVars, upstream, params, extractVars, lockVars, resolveVars, feedVars, snippetVars, annotateVars>>

\* main: the fetch returned an error: os.Exit(1)
FetchFatal ==
    /\ pc = "scrape"
    /\ fpc = "returned"
    /\ fetchResult.err
    /\ fpc' = "handled"
    /\ ExitProcess("fatal")
    /\ UNCHANGED <<envVars, file, faults, alerts, recordCalls, persisted,
                   upstream, params, page, allAnnouncements, fetchResult, extractVars, lockVars, resolveVars, feedVars, snippetVars, annotateVars>>

\* main: the fetch returned its announcements
FetchOk ==
    /\ pc = "scrape"
    /\ fpc = "returned"
    /\ ~fetchResult.err
    /\ fpc' = "handled"
    /\ pc' = "fetched"
    /\ UNCHANGED <<envVars, file, faults, history, poolVars, alerts, recordCalls,
                   lastExit, ghostVars, upstream, params, page, allAnnouncements,
                   fetchResult, extractVars, lockVars, resolveVars, feedVars, snippetVars, annotateVars>>

(***************************************************************************)
(* extractTextFromPDF (internal/asx/asx_util.go).                          *)
(***************************************************************************)
Whitespace == {" ", "\n", "\t", "\r"}

\* strings.TrimSpace keeping trailing white space
TrimSpaceLeftOnly(str) ==
    LET firstInk == {i \in 1..Len(str) : str[i] \notin Whitespace}
    IN  IF firstInk = {} THEN str
        ELSE SubSeq(str, CHOOSE i \in firstInk : \A j \in firstInk : i <= j, Len(str))

\* strings.TrimSpace
TrimSpace(str) ==
    LET ink == {i \in 1..Len(str) : str[i] \notin Whitespace}
    IN  IF ink = {} THEN <<>>
        ELSE SubSeq(str, CHOOSE i \in ink : \A j \in ink : i <= j,
                         CHOOSE i \in ink : \A j \in ink : i >= j)

\* What pdftotext may leave when it exits by itself: a failure, or success
\* with text, with text inside white space, with white space only, with
\* nothing.
ToolOutputs ==
    { [ok |-> FALSE, text |-> <<>>],
      [ok |-> TRUE, text |-> <<"d", "i", "v">>],
      [ok |-> TRUE, text |-> <<" ", "d", "\n">>],
      [ok |-> TRUE, text |-> <<" ", "\n">>],
      [ok |-> TRUE, text |-> <<>>] }

\* ctx.Done() is closed: by the timeout or by cancel()
ctxDone == deadline \/ cancelled

\* the helper about to send val and then go on at position then
Sending(val, then) == [at |-> "send", val |-> val, then |-> then]

\* an error value of errChan
ErrVal(kind) == <<"err", kind>>

\* the steps of the helper and of the subprocess leave the caller alone
HelperFrame ==
    UNCHANGED <<envVars, file, pc, history, poolVars, alerts, recordCalls, lastExit,
                ghostVars, fetchVars, lockVars, resolveVars, feedVars, snippetVars, annotateVars, epc, deadline, cancelled, extractResult, lateTool>>

\* client.Get, the status check and io.ReadAll; then the context, the two
\* channels and the helper goroutine.
ExtractBegin ==
    /\ epc = "idle"
    /\ \E failed \in BOOLEAN :
          /\ Fault(failed)
          /\ IF failed
             THEN /\ extractResult' = [kind |-> "failed", err |-> "download", text |-> <<>>]
                  /\ epc' = "returned"
                  /\ UNCHANGED helper
             ELSE /\ epc' = "select"
                  /\ helper' = At("create")
                  /\ UNCHANGED extractResult
    /\ UNCHANGED <<envVars, file, pc, history, poolVars, alerts, recordCalls, lastExit,
                   ghostVars, fetchVars, lockVars, resolveVars, feedVars, snippetVars, annotateVars, errChan, resultChan, deadline, cancelled, proc,
                   toolOutput, tmpExists, lateTool>>

\* os.CreateTemp; on an error: errChan <- err; return
HelperCreate ==
    /\ helper.at = "create"
    /\ \E failed \in BOOLEAN :
          /\ Fault(failed)
          /\ helper' = IF failed THEN Sending(ErrVal("createTemp"), "done") ELSE At("close")
          /\ tmpExists' = ~failed
    /\ UNCHANGED <<errChan, resultChan, proc, toolOutput>>
    /\ HelperFrame

\* tmpFile.Close; on an error: errChan <- err, and the helper goes on. The
\* removal of the file is deferred after this.
HelperClose ==
    /\ helper.at = "close"
    /\ \E failed \in BOOLEAN :
          /\ Fault(failed)
          /\ helper' = IF failed THEN Sending(ErrVal("closeTemp"), "write") ELSE At("write")
    /\ UNCHANGED <<errChan, resultChan, proc, toolOutput, tmpExists>>
    /\ HelperFrame

\* os.WriteFile; on an error: errChan <- err; return
HelperWrite ==
    /\ helper.at = "write"
    /\ \E failed \in BOOLEAN :
          /\ Fault(failed)
          /\ helper' = IF failed THEN Sending(ErrVal("write"), "deferred") ELSE At("start")
    /\ UNCHANGED <<errChan, resultChan, proc, toolOutput, tmpExists>>
    /\ HelperFrame

\* cmd.Run starts pdftotext; with ctx already done, or the binary missing,
\* it returns an error at once.
HelperStart ==
    /\ helper.at = "start"
    /\ \E failed \in BOOLEAN :
          /\ Fault(failed)
          /\ IF failed \/ ctxDone
             THEN /\ helper' = Sending(ErrVal("tool"), "deferred")
                  /\ UNCHANGED proc
             ELSE /\ helper' = At("wait")
                  /\ proc' = "running"
    /\ UNCHANGED <<errChan, resultChan, toolOutput, tmpExists>>
    /\ HelperFrame

\* pdftotext exits by itself
ProcExit ==
    /\ proc = "running"
    /\ ~ctxDone
    /\ proc' = "exited"
    /\ toolOutput' \in ToolOutputs
    /\ UNCHANGED <<faults, helper, errChan, resultChan, tmpExists>>
    /\ HelperFrame

\* exec.CommandContext kills pdftotext once ctx is done
ProcKilled ==
    /\ proc = "running"
    /\ ctxDone
    /\ proc' = "killed"
    /\ UNCHANGED <<faults, helper, errChan, resultChan, toolOutput, tmpExists>>
    /\ HelperFrame

\* cmd.Run returns: an error when pdftotext failed or was killed
HelperWait ==
    /\ helper.at = "wait"
    /\ proc \in {"exited", "killed"}
    /\ helper' = IF proc = "killed" \/ ~toolOutput.ok
                 THEN Sending(ErrVal("tool"), "deferred")
                 ELSE At("check")
    /\ UNCHANGED <<faults, errChan, resultChan, proc, toolOutput, tmpExists>>
    /\ HelperFrame

\* text := out.String(); blank text is an error, other text the result
HelperCheck ==
    /\ helper.at = "check"
    /\ helper' = IF TrimSpace(toolOutput.text) = <<>>
                 THEN Sending(ErrVal("empty"), "deferred")
                 ELSE Sending(<<"text", toolOutput.text>>, "deferred")
    /\ UNCHANGED <<faults, errChan, resultChan, proc, toolOutput, tmpExists>>
    /\ HelperFrame

\* errChan <- err or resultChan <- text: blocks while the channel is full
HelperSend ==
    /\ helper.at = "send"
    /\ IF helper.val[1] = "err"
       THEN /\ Len(errChan) < 1
            /\ errChan' = Append(errChan, helper.val[2])
            /\ UNCHANGED resultChan
       ELSE /\ Len(resultChan) < 1
            /\ resultChan' = Append(resultChan, helper.val[2])
            /\ UNCHANGED errChan
    /\ helper' = At(helper.then)
    /\ UNCHANGED <<faults, proc, toolOutput, tmpExists>>
    /\ HelperFrame

\* the deferred os.Remove(tmpFileName)
HelperRemove ==
    /\ helper.at = "deferred"
    /\ tmpExists' = FALSE
    /\ helper' = At("done")
    /\ UNCHANGED <<faults, errChan, resultChan, proc, toolOutput>>
    /\ HelperFrame

\* pdfProcessingTimeout elapses
Deadline ==
    /\ epc = "select"
    /\ ~deadline
    /\ deadline' = TRUE
    /\ lateTool' = (proc = "running")
    /\ UNCHANGED <<envVars, file, faults, pc, history, poolVars, alerts, recordCalls,
                   lastExit, ghostVars, fetchVars, lockVars, resolveVars, feedVars, snippetVars, annotateVars, epc, helper, errChan, resultChan,
                   cancelled, proc, toolOutput, tmpExists, extractResult>>

\* the case a select takes among those that can proceed
SelectCases ==
    (IF Len(resultChan) > 0 THEN {"result"} ELSE {})
        \cup (IF Len(errChan) > 0 THEN {"err"} ELSE {})
        \cup (IF ctxDone THEN {"done"} ELSE {})

\* The select of the caller, then return: the deferred cancel() runs.
CallerSelect ==
    /\ epc = "select"
    /\ \E c \in SelectCases :
          CASE c = "result" ->
                  /\ extractResult' = [kind |-> "ok", err |-> "", text |-> Head(resultChan)]
                  /\ resultChan' = Tail(resultChan)
                  /\ UNCHANGED errChan
            [] c = "err" ->
                  /\ extractResult' = [kind |-> "failed", err |-> Head(errChan), text |-> <<>>]
                  /\ errChan' = Tail(errChan)
                  /\ UNCHANGED resultChan
            [] OTHER ->
                  /\ extractResult' = [kind |-> "timeout", err |-> "timeout", text |-> <<>>]
                  /\ UNCHANGED <<errChan, resultChan>>
    /\ epc' = "returned"
    /\ cancelled' = TRUE
    /\ UNCHANGED <<envVars, file, faults, pc, history, poolVars, alerts, recordCalls,
                   lastExit, ghostVars, fetchVars, lockVars, resolveVars, feedVars, snippetVars, annotateVars, helper, deadline, proc, toolOutput,
                   tmpExists, lateTool>>

(***************************************************************************)
(* The history manager under concurrent callers (package history).         *)
(* NewManager loads the history; after it has returned, goroutines call    *)
(* FilterNewMatches and RecordMatches.  Every method is Lock, body,        *)
(* deferred Unlock; the bodies take one step per access of the record.     *)
(***************************************************************************)
\* goroutine 0 is the caller of NewManager
Goroutines == 0..MaxGoroutines

lockFrame ==
    <<fetchVars, extractVars, resolveVars, feedVars, snippetVars, annotateVars, envVars, pc, poolVars, alerts, recordCalls, lastExit,
      ghostVars>>

\* a goroutine outside the manager, with calls still to make
Idle(left) ==
    [at |-> "idle", op |-> "none", ann |-> AnnDiv1, kws |-> <<>>, tm |-> FALSE,
     exists |-> FALSE, matches |-> <<>>, result |-> <<>>, left |-> left]

\* NewManager has returned the manager
Built == goroutines[0].at = "idle" /\ goroutines[0].left = 0

\* arguments of FilterNewMatches
FilterInputs ==
    { [ann |-> AnnDiv1, kws |-> << <<"d", "i", "v">> >>, tm |-> FALSE],
      [ann |-> AnnHalt, kws |-> <<TickerMatchPlaceholder>>, tm |-> TRUE] }

\* arguments of RecordMatches
RecordInputs ==
    { << Match(AnnDiv1, << <<"d", "i", "v">> >>, FALSE, <<>>) >>,
      << Match(AnnHalt, <<>>, TRUE, <<>>),
         Match(AnnDiv1, << <<"c", "a", "s", "h">> >>, FALSE, <<>>) >> }

Become(g, r) == goroutines' = [goroutines EXCEPT ![g] = r]

\* NewManager calls m.loadHistory()
CallLoad ==
    /\ goroutines[0].at = "idle"
    /\ goroutines[0].left > 0
    /\ Become(0, [goroutines[0] EXCEPT !.at = "Lock", !.op = "load", !.left = @ - 1])
    /\ UNCHANGED <<lockFrame, history, file, faults, mutex>>

\* a goroutine calls FilterNewMatches
CallFilter(g) ==
    /\ g # 0
    /\ Built
    /\ goroutines[g].at = "idle"
    /\ goroutines[g].left > 0
    /\ \E in \in FilterInputs :
          Become(g, [Idle(goroutines[g].left - 1) EXCEPT
                        !.at = "Lock", !.op = "filter",
                        !.ann = in.ann, !.kws = in.kws, !.tm = in.tm])
    /\ UNCHANGED <<lockFrame, history, file, faults, mutex>>

\* a goroutine calls RecordMatches
CallRecord(g) ==
    /\ g # 0
    /\ Built
    /\ goroutines[g].at = "idle"
    /\ goroutines[g].left > 0
    /\ \E ms \in RecordInputs :
          Become(g, [Idle(goroutines[g].left - 1) EXCEPT
                        !.at = "Lock", !.op = "record", !.matches = ms])
    /\ UNCHANGED <<lockFrame, history, file, faults, mutex>>

\* a mutex that lets every caller in
MutexFreeAlways == TRUE

\* sync.Mutex: Lock returns when the mutex is unlocked
MutexFree == mutex = 0

\* m.mutex.Lock()
Lock(g) ==
    /\ goroutines[g].at = "Lock"
    /\ MutexFree
    /\ mutex' = g
    /\ Become(g, [goroutines[g] EXCEPT !.at = "body"])
    /\ UNCHANGED <<lockFrame, history, file, faults>>

\* the body of loadHistory
LoadBody(g) ==
    /\ goroutines[g].at = "body"
    /\ goroutines[g].op = "load"
    /\ \E readFails \in BOOLEAN :
          /\ readFails => file.kind # "missing"
          /\ Fault(readFails)
          /\ history' = loadHistory(file, today, readFails)
    /\ Become(g, [goroutines[g] EXCEPT !.at = "Unlock"])
    /\ UNCHANGED <<lockFrame, file, mutex>>

\* reportedKws, exists := m.history.ReportedMatches[key]
FilterLookup(g) ==
    /\ goroutines[g].at = "body"
    /\ goroutines[g].op = "filter"
    /\ Become(g, [goroutines[g] EXCEPT
                    !.at = "loop",
                    !.exists = EntityKey(goroutines[g].ann) \in DOMAIN history.ReportedMatches])
    /\ UNCHANGED <<lockFrame, history, file, faults, mutex>>

\* the rest of FilterNewMatches: reportedKws is the map of the key as it is
\* now when the key existed at the lookup, and a nil map when it did not
FilterLoop(g) ==
    LET c == goroutines[g]
        seen == IF c.exists THEN history ELSE FreshHistory(history.ReportDate)
    IN  /\ c.at = "loop"
        /\ Become(g, [c EXCEPT !.at = "Unlock",
                               !.result = FilterNewMatches(seen, c.ann, c.kws, c.tm)])
        /\ UNCHANGED <<lockFrame, history, file, faults, mutex>>

\* one iteration of the loop of RecordMatches
RecordLoop(g) ==
    LET c == goroutines[g]
    IN  /\ c.at = "body"
        /\ c.op = "record"
        /\ c.matches # <<>>
        /\ history.ReportedMatches # NilMap
        /\ history' = [history EXCEPT !.ReportedMatches = RecordOne(@, Head(c.matches))]
        /\ Become(g, [c EXCEPT !.matches = Tail(@)])
        /\ UNCHANGED <<lockFrame, file, faults, mutex>>

\* the first iteration of the loop on a nil map: the assignment
\* m.history.ReportedMatches[key] = make(map[string]bool) panics; the deferred
\* Unlock runs and the process dies
RecordPanics(g) ==
    LET c == goroutines[g]
    IN  /\ c.at = "body"
        /\ c.op = "record"
        /\ c.matches # <<>>
        /\ history.ReportedMatches = NilMap
        /\ mutex' = 0
        /\ lastExit' = "panic"
        /\ Become(g, [c EXCEPT !.at = "panic"])
        /\ UNCHANGED <<fetchVars, extractVars, resolveVars, feedVars, snippetVars, annotateVars, envVars,
                       pc, poolVars, alerts, recordCalls, ghostVars, history, file, faults>>

\* m.saveHistory() at the end of RecordMatches
RecordSave(g) ==
    LET c == goroutines[g]
        stamped == [history EXCEPT !.ReportDate = today]
    IN  /\ c.at = "body"
        /\ c.op = "record"
        /\ c.matches = <<>>
        /\ \E outcome \in WriteOutcomes :
              /\ Fault(outcome # "ok")
              /\ file' = saveHistory(file, stamped, outcome)
        /\ history' = stamped
        /\ Become(g, [c EXCEPT !.at = "Unlock"])
        /\ UNCHANGED <<lockFrame, mutex>>

\* defer m.mutex.Unlock()
Unlock(g) ==
    /\ goroutines[g].at = "Unlock"
    /\ mutex' = 0
    /\ Become(g, [goroutines[g] EXCEPT !.at = "idle"])
    /\ UNCHANGED <<lockFrame, history, file, faults>>

(***************************************************************************)
(* getPDFURLFromDoURL (internal/asx/asx_util.go).                          *)
(* A response body is a sequence of lexemes: "T" is the text of            *)
(* asxTermsAction, "N" is name="pdfURL", "V" is value=", "Q" is a double   *)
(* quote, "s" a blank, "n" a newline and "u" any other character.          *)
(***************************************************************************)
Lexemes == {"T", "N", "V", "Q", "s", "n", "u"}

Bodies == UNION {[1..n -> Lexemes] : n \in 0..MaxBody}

\* strings.Contains(bodyString, asxTermsAction)
HasTermsAction(b) == Contains(b, <<"T">>)

\* \s of the regular expression
IsSpace(c) == c \in {"s", "n"}

\* the end of \s+ begun after position i: the position of the first lexeme
\* that is not white space
RECURSIVE SkipSpace(_, _)
SkipSpace(b, k) ==
    IF k <= Len(b) /\ IsSpace(b[k]) THEN SkipSpace(b, k + 1) ELSE k

\* the end of (.*?)" begun at position k: the position of the closing
\* quote, or 0 when a newline or the end of the body comes first
RECURSIVE LazyToQuote(_, _)
LazyToQuote(b, k) ==
    IF k > Len(b) \/ b[k] = "n" THEN 0
    ELSE IF b[k] = "Q" THEN k
    ELSE LazyToQuote(b, k + 1)

\* the match of name="pdfURL"\s+value="(.*?)" that begins at position i:
\* the submatch in a one-element sequence, or nothing
MatchAt(b, i) ==
    LET k == SkipSpace(b, i + 1)
        q == LazyToQuote(b, k + 1)
    IN  IF b[i] = "N" /\ k > i + 1 /\ k <= Len(b) /\ b[k] = "V" /\ q # 0
        THEN <<SubSeq(b, k + 1, q - 1)>>
        ELSE <<>>

\* re.FindStringSubmatch(bodyString): the leftmost match
FindStringSubmatch(b) ==
    LET starts == {i \in 1..Len(b) : MatchAt(b, i) # <<>>}
    IN  IF starts = {} THEN <<>>
        ELSE MatchAt(b, CHOOSE i \in starts : \A j \in starts : i <= j)

\* what the network does to the calls: the GET fails, the read of the body
\* fails, the POST of the form fails, or nothing fails
IOOutcomes == {"ok", "get", "read", "post"}

\* getPDFURLFromDoURL that does not look for the terms form
getPDFURLFromDoURLAnyPage(b, io) ==
    LET match == FindStringSubmatch(b)
    IN  IF io = "get" THEN [url |-> <<>>, err |-> "failed initial GET", warned |-> FALSE]
        ELSE IF io = "read" THEN [url |-> <<>>, err |-> "failed to read response body", warned |-> FALSE]
        ELSE IF match = <<>> THEN [url |-> <<>>, err |-> "no PDF URL found", warned |-> FALSE]
        ELSE [url |-> match[1], err |-> "", warned |-> io = "post"]

\* getPDFURLFromDoURL returning the failure of the form submission
getPDFURLFromDoURLPostFatal(b, io) ==
    LET match == FindStringSubmatch(b)
    IN  IF io = "get" THEN [url |-> <<>>, err |-> "failed initial GET", warned |-> FALSE]
        ELSE IF io = "read" THEN [url |-> <<>>, err |-> "failed to read response body", warned |-> FALSE]
        ELSE IF HasTermsAction(b)
        THEN IF match = <<>>
             THEN [url |-> <<>>, err |-> "could not find the hidden 'pdfURL' field", warned |-> FALSE]
             ELSE IF io = "post"
             THEN [url |-> <<>>, err |-> "T&C POST submission failed", warned |-> TRUE]
             ELSE [url |-> match[1], err |-> "", warned |-> FALSE]
        ELSE [url |-> <<>>, err |-> "no PDF URL found", warned |-> FALSE]

\* the result, the error, and whether the warning of the failed form
\* submission was logged
getPDFURLFromDoURL(b, io) ==
    LET match == FindStringSubmatch(b)
    IN  IF io = "get" THEN [url |-> <<>>, err |-> "failed initial GET", warned |-> FALSE]
        ELSE IF io = "read" THEN [url |-> <<>>, err |-> "failed to read response body", warned |-> FALSE]
        ELSE IF HasTermsAction(b)
        THEN IF match = <<>>
             THEN [url |-> <<>>, err |-> "could not find the hidden 'pdfURL' field", warned |-> FALSE]
             ELSE [url |-> match[1], err |-> "", warned |-> io = "post"]
        ELSE [url |-> <<>>, err |-> "no PDF URL found", warned |-> FALSE]

\* filterAndAnnotate calls getPDFURLFromDoURL; an error ends the item, which
\* the worker logs
ResolveCall ==
    /\ rpc = "idle"
    /\ \E io \in IOOutcomes :
          /\ resolveResult' = getPDFURLFromDoURL(body, io)
          /\ itemOutcome' = IF getPDFURLFromDoURL(body, io).err # ""
                            THEN "Failed" ELSE "Extracting"
    /\ rpc' = "resolved"
    /\ UNCHANGED <<fetchVars, extractVars, lockVars, feedVars, snippetVars, annotateVars, body, envVars,
                   file, faults, pc,
                   history, poolVars, alerts, recordCalls, lastExit, ghostVars>>

(***************************************************************************)
(* main and ScrapeDailyFeed (cmd/scraper/main.go, internal/asx/asx.go).    *)
(***************************************************************************)
\* a table row of a feed page: its price-sensitive marker and whether the
\* title cell holds a link to the document
Rows == [IsPriceSensitive : BOOLEAN, hasLink : BOOLEAN]

Pages == UNION {[1..n -> Rows] : n \in 0..MaxRows}

\* traverseAndCollect: the rows with a document link, without the rows that
\* are not price sensitive when the filter is on
traverseAndCollect(rows, filter) ==
    LET keep(r) == r.hasLink /\ ~(filter /\ ~r.IsPriceSensitive)
    IN  SelectSeq(rows, keep)

\* ScrapeDailyFeed(previousDay, filterPriceSensitive): the page read and the
\* announcements returned
ScrapeDailyFeed(previousDay, filter) ==
    [url |-> IF previousDay THEN "previous" ELSE "today",
     announcements |->
        traverseAndCollect(IF previousDay THEN previousPage ELSE todayPage, filter)]

\* asx.ScrapeDailyFeed(*filterPriceSensitive, *scrapePrevious): the first
\* argument is the parameter previousDay, the second filterPriceSensitive
ScrapeArgs == [previousDay |-> filterPriceSensitive, filter |-> scrapePrevious]

\* main calls ScrapeDailyFeed
ScrapeCall ==
    /\ spc = "flags"
    /\ url' = ScrapeDailyFeed(ScrapeArgs.previousDay, ScrapeArgs.filter).url
    /\ announcements' =
          ScrapeDailyFeed(ScrapeArgs.previousDay, ScrapeArgs.filter).announcements
    /\ spc' = "scraped"
    /\ UNCHANGED <<fetchVars, extractVars, lockVars, resolveVars, snippetVars, annotateVars,
                   filterPriceSensitive,
                   scrapePrevious, todayPage, previousPage, envVars, file, faults, pc,
                   history, poolVars, alerts, recordCalls, lastExit, ghostVars>>

(***************************************************************************)
(* filterAndAnnotate on given texts (internal/asx/asx.go).                 *)
(***************************************************************************)
\* n copies of a string
RECURSIVE Repeat(_, _)
Repeat(str, n) == IF n = 0 THEN <<>> ELSE str \o Repeat(str, n - 1)

\* sixty bytes of text without a keyword, with a line break
FillerBlock == Repeat(<<"x">>, 29) \o <<"\n">> \o Repeat(<<"x">>, 30)

\* texts: Kelvin signs, filler, the word "Cash", filler
SnippetTexts ==
    {Repeat(KelvinSign, k) \o Repeat(FillerBlock, b) \o <<"C", "a", "s", "h">>
        \o Repeat(FillerBlock, c) :
        k \in 0..MaxKelvin, b \in 0..MaxBlocks, c \in 0..MaxBlocks}

SnippetAnns ==
    { Announcement(<<"A", "B", "C">>, <<"A", "B", "C", " ", "a", "n", "n", "o", "u", "n", "c", "e", "s", " ", "d", "i", "v", "i", "d", "e", "n", "d">>, 1),
      Announcement(<<"A", "B", "C">>, <<"A", "B", "C", " ", "C", "a", "s", "h", " ", "u", "p", "d", "a", "t", "e">>, 1),
      Announcement(<<"A", "B", "C">>, <<"A", "B", "C", " ", "u", "p", "d", "a", "t", "e">>, 1) }

SnippetCriteria ==
    { [keywords |-> << <<"d", "i", "v", "i", "d", "e", "n", "d">> >>, tickers |-> <<>>],
      [keywords |-> << <<"c", "a", "s", "h">> >>, tickers |-> <<>>],
      [keywords |-> << <<"c", "a", "s", "h">>, <<"d", "i", "v", "i", "d", "e", "n", "d">> >>, tickers |-> <<>>] }

\* filterAndAnnotate from the keyword search on, for the text given
BuildMatch ==
    /\ snpc = "text"
    /\ built' = <<filterAndAnnotate([Worker(doc) EXCEPT !.st = "Matching",
                                                       !.text = docText])>>
    /\ snpc' = "built"
    /\ UNCHANGED <<fetchVars, extractVars, lockVars, resolveVars, feedVars, annotateVars, doc,
                   docText,
                   envVars, file, faults, pc, history, poolVars, alerts, recordCalls,
                   lastExit, ghostVars>>

\* getSnippet(text, keyword) called with the first keyword of the command line
SnippetCall ==
    /\ snpc = "text"
    /\ built' = <<getSnippet(docText, criteria.keywords[1])>>
    /\ snpc' = "snippet"
    /\ UNCHANGED <<fetchVars, extractVars, lockVars, resolveVars, feedVars, annotateVars, doc,
                   docText,
                   envVars, file, faults, pc, history, poolVars, alerts, recordCalls,
                   lastExit, ghostVars>>

(***************************************************************************)
(* The matcher on given titles and texts (internal/asx/asx.go).            *)
(***************************************************************************)
\* unicode.ToUpper on one character
UpperChar(c) ==
    IF \E i \in 1..Len(LowerChars) : LowerChars[i] = c
    THEN UpperChars[CHOOSE i \in 1..Len(LowerChars) : LowerChars[i] = c]
    ELSE c

\* the string in every letter case
CaseVariants(str) ==
    {[i \in 1..Len(str) |-> IF i \in U THEN UpperChar(str[i]) ELSE LowerChar(str[i])] :
        U \in SUBSET (1..Len(str))}

MatchAnns ==
    { Announcement(<<"A">>, <<"D", "i">>, 1),
      Announcement(<<"B">>, <<"H", "i">>, 1) }

MatchTexts == { <<"s", "h">>, <<"d", "i", " ", "s", "h">>, <<>> }

\* command lines after parseKeywords and parseTickers
MatchCriteria ==
    { [keywords |-> << <<"s", "h">>, <<"d", "i">> >>, tickers |-> <<>>],
      [keywords |-> << <<"s", "h">> >>, tickers |-> << <<"B">> >>],
      [keywords |-> <<>>, tickers |-> << <<"A">>, <<"C">> >>] }

\* isTickerMatch and findKeywords called for the announcement, with its
\* title and text in some letter case
MatchCall ==
    /\ snpc = "match"
    /\ Len(built) < MaxCalls
    /\ \E title \in CaseVariants(doc.Title), text \in CaseVariants(docText) :
          built' = Append(built,
                     [Title |-> title, Text |-> text,
                      TickerMatched |-> isTickerMatch(doc.Ticker, criteria.tickers),
                      KeywordsFound |-> findKeywords(title, text, criteria.keywords)])
    /\ UNCHANGED <<fetchVars, extractVars, lockVars, resolveVars, feedVars, annotateVars, doc,
                   docText,
                   snpc, envVars, file, faults, pc, history, poolVars, alerts,
                   recordCalls, lastExit, ghostVars>>

(***************************************************************************)
(* runAIAnalysis (package asx, both feeds).                                *)
(* An analysis is "nil" or "analysis"; the historic feed is the sequence   *)
(* of the tickers of its announcements.                                    *)
(***************************************************************************)
HistoricFeeds ==
    {[i \in 1..Len(f) |-> f[i]] :
        f \in UNION {[1..n -> {<<"A">>, <<"B">>}] : n \in 0..MaxHistoric}}

AIInputs ==
    [keySet : BOOLEAN, fetchFails : BOOLEAN, historic : HistoricFeeds,
     summaryFails : BOOLEAN, ticker : {<<"A">>, <<"B">>}]

\* runAIAnalysis over ScrapeHistoric(ticker, 6, true): a failed fetch is
\* logged and the summary is asked for with an empty list
runAIAnalysis(in) ==
    IF ~in.keySet THEN "nil"
    ELSE IF in.summaryFails THEN "nil"
    ELSE "analysis"

\* runAIAnalysis over FetchAnnouncements: the announcements of the ticker
\* are collected and the summary is asked for with historicList[1:], which
\* is out of range for an empty list
runAIAnalysisFetched(in) ==
    LET historicAnnouncements == IF in.fetchFails THEN <<>> ELSE in.historic
        sameTicker(t) == t = in.ticker
        historicList == SelectSeq(historicAnnouncements, sameTicker)
    IN  IF ~in.keySet THEN "nil"
        ELSE IF Len(historicList) < 1 THEN "panic"
        ELSE IF in.summaryFails THEN "nil"
        ELSE "analysis"

\* the end of filterAndAnnotate (internal/asx/asx.go): the Match is built,
\* the analysis is asked for, both are returned
AnnotateScraped ==
    /\ apc = "matched"
    /\ aiOut' = [match |-> TRUE, analysis |-> runAIAnalysis(aiIn)]
    /\ apc' = "returned"
    /\ UNCHANGED <<fetchVars, extractVars, lockVars, resolveVars, feedVars, snippetVars,
                   aiIn, envVars, file, faults, pc, history, poolVars, alerts,
                   recordCalls, lastExit, ghostVars>>

\* the end of filterAndAnnotate (the package over FetchAnnouncements): a
\* panic in the worker goroutine ends the process
AnnotateFetched ==
    /\ apc = "matched"
    /\ IF runAIAnalysisFetched(aiIn) = "panic"
       THEN /\ apc' = "panic"
            /\ aiOut' = aiOut
       ELSE /\ apc' = "returned"
            /\ aiOut' = [match |-> TRUE, analysis |-> runAIAnalysisFetched(aiIn)]
    /\ UNCHANGED <<fetchVars, extractVars, lockVars, resolveVars, feedVars, snippetVars,
                   aiIn, envVars, file, faults, pc, history, poolVars, alerts,
                   recordCalls, lastExit, ghostVars>>

(***************************************************************************)
(* Specifications.                                                         *)
(***************************************************************************)
\* the steps of one run, after the feed was fetched
RunStep ==
    \/ Dispatch
    \/ StartCollector
    \/ WorkerStep
    \/ CloseChannel
    \/ Return
    \/ Report
    \/ Record
    \/ Exit

\* Runs over several days with daily feeds.
Next ==
    \/ Tick
    \/ Start
    \/ StartFails
    \/ ScrapeFails
    \/ ScrapeEmpty(DailyFeeds)
    \/ Scrape(DailyFeeds)
    \/ RunStep

Spec == Init /\ [][Next]_vars

\* Runs that can be ended from outside between report and record.
NextInterrupt ==
    \/ Next
    \/ Interrupt

SpecInterrupt == Init /\ [][NextInterrupt]_vars

\* One run over a feed longer than the semaphore is wide.
InitPool == InitWith(1, PoolCriteria) /\ CompIdle

NextPool ==
    \/ Start
    \/ Scrape(PoolFeeds)
    \/ RunStep

SpecPool == InitPool /\ [][NextPool]_vars

\* Go schedules every goroutine that can run.
FairPool == InitPool /\ [][NextPool]_vars /\ WF_vars(NextPool)

\* One run that fetches a paginated feed.
InitFetch ==
    /\ InitWith(1, PoolCriteria)
    /\ upstream \in Upstreams
    /\ params \in ParamChoices
    /\ fpc = "idle"
    /\ page = 0
    /\ allAnnouncements = 0
    /\ fetchResult = [n |-> 0, err |-> FALSE]
    /\ ExtractIdle
    /\ LockIdle
    /\ ResolveIdle
    /\ FeedIdle
    /\ SnippetIdle
    /\ AnnotateIdle

NextFetch ==
    \/ Start
    \/ FetchBegin
    \/ FetchPage
    \/ FetchFatal
    \/ FetchOk

SpecFetch == InitFetch /\ [][NextFetch]_vars

\* One extraction.
InitExtract ==
    /\ InitWith(1, PoolCriteria)
    /\ FetchIdle
    /\ ExtractIdle
    /\ LockIdle
    /\ ResolveIdle
    /\ FeedIdle
    /\ SnippetIdle
    /\ AnnotateIdle

NextExtract ==
    \/ ExtractBegin
    \/ HelperCreate
    \/ HelperClose
    \/ HelperWrite
    \/ HelperStart
    \/ ProcExit
    \/ ProcKilled
    \/ HelperWait
    \/ HelperCheck
    \/ HelperSend
    \/ HelperRemove
    \/ Deadline
    \/ CallerSelect

SpecExtract == InitExtract /\ [][NextExtract]_vars

\* Go schedules every goroutine that can run, and a process that got the
\* kill signal exits.
FairExtract == InitExtract /\ [][NextExtract]_vars /\ WF_vars(NextExtract)

\* One manager shared by goroutines.
InitLock ==
    /\ InitWith(0, PoolCriteria)
    /\ FetchIdle
    /\ ExtractIdle
    /\ ResolveIdle
    /\ FeedIdle
    /\ SnippetIdle
    /\ AnnotateIdle
    /\ mutex = 0
    /\ goroutines = [g \in Goroutines |-> Idle(IF g = 0 THEN 1 ELSE MaxCalls)]

NextLock ==
    \/ CallLoad
    \/ \E g \in Goroutines :
          \/ CallFilter(g)
          \/ CallRecord(g)
          \/ Lock(g)
          \/ LoadBody(g)
          \/ FilterLookup(g)
          \/ FilterLoop(g)
          \/ RecordLoop(g)
          \/ RecordSave(g)
          \/ Unlock(g)

SpecLock == InitLock /\ [][NextLock]_vars

\* what NewManager can find on disk on day 1: no file, a torn file, the
\* history of another day, today's history, today's date without a map
HistoryFiles ==
    { NoFile, TornFile,
      JsonFile([ReportDate |-> 0,
                ReportedMatches |-> RecordOne(EmptyMap, Match(AnnDiv1, << <<"d", "i", "v">> >>, FALSE, <<>>))]),
      JsonFile([ReportDate |-> 1,
                ReportedMatches |-> RecordOne(EmptyMap, Match(AnnDiv1, << <<"d", "i", "v">> >>, FALSE, <<>>))]),
      JsonFile(FreshHistory(1)),
      DateOnlyFile(0),
      DateOnlyFile(1) }

\* The manager over each file.
InitLoad ==
    /\ InitOn(0, PoolCriteria, HistoryFiles)
    /\ FetchIdle
    /\ ExtractIdle
    /\ ResolveIdle
    /\ FeedIdle
    /\ SnippetIdle
    /\ AnnotateIdle
    /\ mutex = 0
    /\ goroutines = [g \in Goroutines |-> Idle(IF g = 0 THEN 1 ELSE MaxCalls)]

\* a panic ends the process
NextLoad ==
    \/ lastExit # "panic" /\ NextLock
    \/ \E g \in Goroutines : RecordPanics(g)

SpecLoad == InitLoad /\ [][NextLoad]_vars

\* One resolution of one announcement page.
InitResolve ==
    /\ InitWith(0, PoolCriteria)
    /\ FetchIdle
    /\ ExtractIdle
    /\ LockIdle
    /\ FeedIdle
    /\ SnippetIdle
    /\ AnnotateIdle
    /\ body \in Bodies
    /\ rpc = "idle"
    /\ resolveResult = [url |-> <<>>, err |-> "", warned |-> FALSE]
    /\ itemOutcome = "none"

NextResolve == ResolveCall

SpecResolve == InitResolve /\ [][NextResolve]_vars

\* One call of ScrapeDailyFeed under each command line.
InitFeed ==
    /\ InitWith(0, PoolCriteria)
    /\ FetchIdle
    /\ ExtractIdle
    /\ LockIdle
    /\ ResolveIdle
    /\ filterPriceSensitive \in BOOLEAN
    /\ scrapePrevious \in BOOLEAN
    /\ todayPage \in Pages
    /\ previousPage \in Pages
    /\ spc = "flags"
    /\ url = "none"
    /\ announcements = <<>>
    /\ SnippetIdle
    /\ AnnotateIdle

NextFeed == ScrapeCall

SpecFeed == InitFeed /\ [][NextFeed]_vars

\* One announcement with each text, under each command line.
InitSnippet ==
    /\ InitWith(0, SnippetCriteria)
    /\ FetchIdle
    /\ ExtractIdle
    /\ LockIdle
    /\ ResolveIdle
    /\ FeedIdle
    /\ AnnotateIdle
    /\ doc \in SnippetAnns
    /\ docText \in SnippetTexts
    /\ snpc = "text"
    /\ built = <<>>

NextSnippet ==
    \/ BuildMatch
    \/ SnippetCall

SpecSnippet == InitSnippet /\ [][NextSnippet]_vars

\* One announcement with each text, under each command line.
InitMatch ==
    /\ InitWith(0, MatchCriteria)
    /\ FetchIdle
    /\ ExtractIdle
    /\ LockIdle
    /\ ResolveIdle
    /\ FeedIdle
    /\ AnnotateIdle
    /\ doc \in MatchAnns
    /\ docText \in MatchTexts
    /\ snpc = "match"
    /\ built = <<>>

NextMatch == MatchCall

SpecMatch == InitMatch /\ [][NextMatch]_vars

\* One matched announcement under each behaviour of the annotation calls.
InitAnnotate ==
    /\ InitWith(0, PoolCriteria)
    /\ FetchIdle
    /\ ExtractIdle
    /\ LockIdle
    /\ ResolveIdle
    /\ FeedIdle
    /\ SnippetIdle
    /\ aiIn \in AIInputs
    /\ apc = "matched"
    /\ aiOut = [match |-> FALSE, analysis |-> "nil"]

NextAnnotate ==
    \/ AnnotateScraped
    \/ AnnotateFetched

SpecAnnotate == InitAnnotate /\ [][NextAnnotate]_vars

(***************************************************************************)
(* Properties.                                                             *)
(***************************************************************************)
\* main is between NewManager and its call of RecordMatches
Running == pc \in {"scrape", "dispatch", "collect", "report", "record"}

\* ProcessAnnouncements has returned
Returned == pc \in {"report", "record", "done"}

Universe == {AnnDiv1, AnnDiv2, AnnHalt}

\* the <<key, token>> pairs a map of reported matches holds
StoredPairs(rm) ==
    UNION {{<<k, t>> : t \in {u \in DOMAIN rm[k] : rm[k][u]}} : k \in DOMAIN rm}

\* the history the file holds
FileHistory == UnmarshalHistory(file.data)

\* the workers in one of the given positions
CountWhere(P(_)) ==
    BagCardinality([w \in {v \in BagToSet(workers) : P(v)} |-> workers[w]])

\* C1: within one reporting day no (entity key, criterion token) pair is
\* handed to the reporter in more than one Match.
C1_NoRepeatedAlert ==
    \A e \in BagToSet(alerts) : CopiesIn(e, alerts) = 1

\* C2: ProcessAnnouncements never stays blocked: while it runs, the
\* dispatch loop, a worker, the closer or the collector can take a step.
C2_NeverBlocked ==
    pc \in {"dispatch", "collect"} => ENABLED RunStep

\* C3: every entry the file holds under a date was reported on that date:
\* no entry of an earlier day is persisted under a later date.
C3_NoEntryUnderLaterDate ==
    file.kind = "json" =>
        \A p \in StoredPairs(FileHistory.ReportedMatches) :
            <<FileHistory.ReportDate, p[1], p[2]>> \in BagToSet(alerts)

\* filterNew(E, [K], false) is empty and no worker built a Match for (E, K)
Suppresses(k, t) ==
    /\ \A a \in Universe :
          EntityKey(a) = k => FilterNewMatches(history, a, <<t>>, FALSE) = <<>>
    /\ \A w \in BagToSet(workers) :
          w.m # <<>> =>
              ~(EntityKey(w.m[1].Announcement) = k /\ t \in MatchTokens(w.m[1]))

C5_StaleDiscarded ==
    (Running /\ file.kind = "json" /\ FileHistory.ReportDate # startDay) =>
        /\ history = FreshHistory(startDay)
        /\ \A w \in BagToSet(workers) : w.out # "Suppressed"

C5_Witness ==
    /\ Running
    /\ file.kind = "json"
    /\ FileHistory.ReportDate # startDay
    /\ \E w \in BagToSet(workers) :
          /\ w.out = "Emitted"
          /\ \E t \in MatchTokens(w.m[1]) :
                <<EntityKey(w.a), t>> \in StoredPairs(FileHistory.ReportedMatches)

AllDone == \A w \in BagToSet(workers) : w.st = "Done"

\* C6: a run that fetched its feed calls record exactly once, after every
\* worker has finished.
C6_RecordCalledOnce ==
    /\ [](recordCalls <= 1)
    /\ [](pc = "done" => AllDone)
    /\ (pc = "dispatch") ~> (recordCalls = 1)

\* how often x occurs in a sequence
CountIn(seq, x) == Cardinality({i \in 1..Len(seq) : seq[i] = x})

\* how many workers reached Emitted with the Match x
EmittedWith(x) ==
    LET IsX(w) == w.out = "Emitted" /\ w.m = <<x>>
    IN  CountWhere(IsX)

\* C7: when ProcessAnnouncements has returned, its output holds one entry
\* for each worker that reached Emitted, and nothing else.
C7_OutputIsEmitted ==
    Returned =>
        /\ \A x \in Range(annotatedMatches) :
              CountIn(annotatedMatches, x) = EmittedWith(x)
        /\ \A w \in BagToSet(workers) :
              w.out = "Emitted" => w.m[1] \in Range(annotatedMatches)

\* two matches, collected against the order of the feed
C7_Witness ==
    /\ Returned
    /\ Len(annotatedMatches) = 2
    /\ annotatedMatches[1].Announcement.PDFURL.doc = feed[2].PDFURL.doc

\* the workers that hold a token of the semaphore
HoldsToken(w) ==
    w.st \in {"Resolving", "Extracting", "Matching", "Sending", "Releasing"}

InFlight == CountWhere(HoldsToken)

\* C8: at most 10 pipelines are in flight.
C8_AtMostTenInFlight == InFlight <= SemCap

C8_Witness ==
    /\ InFlight = SemCap
    /\ next < Len(feed)

\* C9: matchChan is closed only after every announcement was dispatched and
\* every worker is done, and the collector stops only after that.
C9_CloseAfterWorkers ==
    /\ chanClosed => (next = Len(feed) /\ BagCardinality(workers) = Len(feed) /\ AllDone)
    /\ Returned => chanClosed

C9_Witness ==
    /\ chanClosed
    /\ BagCardinality(workers) > SemCap
    /\ Len(annotatedMatches) > 0

\* some worker with the same entity key reached Emitted
EmittedFor(k) ==
    \E v \in BagToSet(workers) : v.out = "Emitted" /\ EntityKey(v.a) = k

\* the stored set of an entity key
Entry(rm, k) == IF k \in DOMAIN rm THEN rm[k] ELSE EmptyMap

FailedContained ==
    \A w \in BagToSet(workers) :
        w.out = "Failed" =>
            /\ w.m = <<>>
            /\ w.st \in {"Releasing", "Exiting", "Done"}
            /\ (w.st # "Done" => ENABLED (Release(w) \/ Done(w)))
            /\ \A i \in 1..Len(annotatedMatches) :
                  annotatedMatches[i].Announcement.PDFURL.doc # w.a.PDFURL.doc

FailedNotRecorded ==
    (pc = "record" /\ pc' = "done") =>
        \A w \in BagToSet(workers) :
            (w.out = "Failed" /\ ~EmittedFor(EntityKey(w.a))) =>
                /\ (EntityKey(w.a) \in DOMAIN history'.ReportedMatches)
                      = (EntityKey(w.a) \in DOMAIN history.ReportedMatches)
                /\ Entry(history'.ReportedMatches, EntityKey(w.a))
                      = Entry(history.ReportedMatches, EntityKey(w.a))

\* C10: a worker whose resolution or extraction failed builds no Match,
\* goes straight to its exit without ever waiting, adds nothing to the
\* output and nothing to the history, and a run that ends has called record.
C10_FailureContained ==
    /\ [](FailedContained)
    /\ [][FailedNotRecorded]_vars
    /\ []((pc = "done") => recordCalls = 1)

\* a run that ended with record called, one worker failed, another emitted
C10_Witness ==
    /\ pc = "done"
    /\ recordCalls = 1
    /\ \E w \in BagToSet(workers) : w.out = "Failed"
    /\ \E w \in BagToSet(workers) : w.out = "Emitted"

\* FetchAnnouncements has returned without an error
FetchedOk == fpc \in {"returned", "handled"} /\ ~fetchResult.err

C12_StopsOnlyAtEnd ==
    FetchedOk =>
        \/ Items(PageAt(page)) < PageSize
        \/ (params.MaxResults > 0 /\ allAnnouncements >= params.MaxResults)

\* C13: with a cap, no more than MaxResults announcements are returned.
C13_NeverOverCap ==
    (FetchedOk /\ params.MaxResults > 0) => fetchResult.n <= params.MaxResults

\* C14: an extraction whose subprocess was still running when the timeout
\* elapsed returns the timed-out error.
C14_LateToolTimesOut ==
    (epc = "returned" /\ lateTool) => extractResult.kind = "timeout"

\* C15: when extractTextFromPDF has returned, the temporary file does not
\* exist.
C15_NoTempFileAtReturn ==
    epc = "returned" => ~tmpExists

\* nothing of the extraction is left: no helper, no subprocess, no file
CleanedUp ==
    /\ helper.at \in {"none", "done"}
    /\ proc # "running"
    /\ ~tmpExists

\* C16: a subprocess running when the timeout elapses is ended, and after
\* extractTextFromPDF has returned the helper eventually terminates with the
\* temporary file removed.
C16_EventuallyCleanedUp ==
    /\ (deadline /\ proc = "running") ~> (proc # "running")
    /\ (epc = "returned") ~> CleanedUp

\* a text of white space only, or of nothing
Blank(text) == \A i \in 1..Len(text) : text[i] \in Whitespace

\* C17: extractTextFromPDF never returns blank text as a success, and when
\* pdftotext exited successfully with blank output it returns an error.
C17_BlankIsAnError ==
    /\ extractResult.kind = "ok" => ~Blank(extractResult.text)
    /\ (epc = "returned" /\ proc = "exited" /\ toolOutput.ok
            /\ Blank(toolOutput.text))
          => extractResult.kind \in {"failed", "timeout"}

\* white space only, returned as the empty-text error
C17_Witness ==
    /\ epc = "returned"
    /\ proc = "exited"
    /\ toolOutput.ok
    /\ Len(toolOutput.text) > 0
    /\ Blank(toolOutput.text)
    /\ extractResult = [kind |-> "failed", err |-> "empty", text |-> <<>>]

\* the keywords found in the title, then those found only in the body
TitleFirst(title, text, keywords) ==
    LET inTitle(kw) == Contains(ToLower(title), kw)
        inBodyOnly(kw) == ~inTitle(kw) /\ Contains(ToLower(text), kw)
    IN  SelectSeq(keywords, inTitle) \o SelectSeq(keywords, inBodyOnly)

\* the workers whose pipeline has called findKeywords
Matched(w) ==
    /\ w.st \notin {"Resolving", "Extracting", "Matching"}
    /\ w.out # "Failed"

\* C18: the keywords findKeywords returns are those found in the title, in
\* criteria order, followed by those found only in the body, in criteria
\* order, none of them twice.
C18_TitleKeywordsFirst ==
    \A w \in BagToSet(workers) :
        Matched(w) =>
            LET found == findKeywords(w.a.Title, w.text, criteria.keywords)
            IN  /\ found = TitleFirst(w.a.Title, w.text, criteria.keywords)
                /\ \A i, j \in 1..Len(found) : found[i] = found[j] => i = j

\* a worker calls the history filter
FilterStep == \E w \in BagToSet(workers) : MatchAndFilter(w)

\* two workers of a run that called the filter with the same arguments
SameCall(w, v) ==
    /\ Matched(w)
    /\ Matched(v)
    /\ EntityKey(w.a) = EntityKey(v.a)
    /\ findKeywords(w.a.Title, w.text, criteria.keywords)
          = findKeywords(v.a.Title, v.text, criteria.keywords)

\* the keywords of the Match a worker built, if it built one
KeywordsOf(w) == IF w.m = <<>> THEN <<>> ELSE w.m[1].KeywordsFound

SameCallsSameResult ==
    \A w, v \in BagToSet(workers) :
        SameCall(w, v) => (w.out = v.out /\ KeywordsOf(w) = KeywordsOf(v))

\* C19: a call of FilterNewMatches leaves the history and its file as they
\* are, and calls with the same arguments within a run, where nothing is
\* recorded in between, have the same result.
C19_FilterIsPureRead ==
    /\ [][FilterStep => UNCHANGED <<history, file>>]_vars
    /\ [](SameCallsSameResult)

\* two workers got the same new token for one entity key
C19_Witness ==
    \E w, v \in BagToSet(workers) :
        /\ w # v
        /\ SameCall(w, v)
        /\ w.out = "Emitted"
        /\ v.out = "Emitted"

\* the tokens stored for an entity key
StoredSet(h, key) ==
    IF key \in DOMAIN h.ReportedMatches
    THEN {t \in DOMAIN h.ReportedMatches[key] : h.ReportedMatches[key][t]}
    ELSE {}

\* candidate lists of at most two tokens
CandidateLists ==
    LET T == {<<"d", "i", "v">>, <<"c", "a", "s", "h">>, TickerMatchPlaceholder}
    IN  {[i \in 1..Len(c) |-> c[i]] : c \in UNION {[1..n -> T] : n \in 0..2}}

\* the candidates that are not stored, with the sentinel as the only
\* candidate of a ticker match without keywords
NotStored(h, ann, candidates, tickerMatched) ==
    LET fresh(t) == t \notin StoredSet(h, EntityKey(ann))
    IN  SelectSeq(IF tickerMatched /\ candidates = <<>>
                  THEN <<TickerMatchPlaceholder>> ELSE candidates, fresh)

\* C20: FilterNewMatches returns the candidates, in order, that are not in
\* the stored set of the entity key: all of them when the key has no entry,
\* and the sentinel stands for an empty list of a ticker match.
\* (The history changes only when it is loaded and when matches are
\* recorded: every history is met right after one of the two.)
C20_FilterReturnsNotStored ==
    pc \in {"scrape", "done"} =>
        \A a \in Universe, c \in CandidateLists, tm \in BOOLEAN :
            FilterNewMatches(history, a, c, tm) = NotStored(history, a, c, tm)

\* a loaded history with a stored keyword and a stored sentinel: part of a
\* list passes, and a ticker match without keywords is suppressed
C20_Witness ==
    /\ pc = "scrape"
    /\ \E a \in Universe :
          FilterNewMatches(history, a, << <<"d", "i", "v">>, <<"c", "a", "s", "h">> >>, FALSE)
              = << <<"c", "a", "s", "h">> >>
    /\ \E a \in Universe :
          /\ FilterNewMatches(history, a, <<>>, TRUE) = <<>>
          /\ StoredSet(history, EntityKey(a)) # {}

\* the matches handed to RecordMatches by the step that calls it
RecordedNow == IF pc = "record" THEN annotatedMatches ELSE <<>>

\* main calls RecordMatches
RecordStep == pc \in {"record", "scrape"} /\ pc' = "done"

\* the <<key, token>> pairs a list of matches asks to store
AskedPairs(matches) ==
    UNION {{<<EntityKey(m.Announcement), t>> :
                t \in Range(m.KeywordsFound) \cup
                      (IF m.KeywordsFound = <<>> /\ m.TickerMatched
                       THEN {TickerMatchPlaceholder} ELSE {})} : m \in Range(matches)}

\* C21: RecordMatches stores every keyword of every Match, and the sentinel
\* of a ticker-only Match, under the entity key of the Match; it keeps
\* every token that was stored and adds nothing else.
C21_RecordAddsExactlyMatches ==
    [][RecordStep =>
          StoredPairs(history'.ReportedMatches)
              = StoredPairs(history.ReportedMatches) \cup AskedPairs(RecordedNow)]_vars

\* a keyword was added to an entity key that had another one stored
C21_Witness ==
    /\ pc = "done"
    /\ \E m \in Range(annotatedMatches) :
          /\ Len(m.KeywordsFound) = 1
          /\ Cardinality(StoredSet(history, EntityKey(m.Announcement))) = 2

\* NewManager loads the history
LoadStep == pc = "off" /\ pc' = "scrape"

\* no read or write failed in this step
NoFaultNow == faults' = faults

\* after a save that succeeded, a load on the day of the save gives the
\* keys and tokens of the store that was saved
SavedIsLoadable ==
    (RecordStep /\ NoFaultNow) =>
        /\ file'.kind = "json"
        /\ StoredPairs(loadHistory(file', today', FALSE).ReportedMatches)
              = StoredPairs(history'.ReportedMatches)

Matcher(w) == w.out \in {"NoMatch", "Suppressed", "Emitted"}

\* no keyword of the command line occurs in the title or in the text
NoKeywordHit(w) ==
    \A k \in Range(criteria.keywords) :
        ~Contains(ToLower(w.a.Title), k) /\ ~Contains(ToLower(w.text), k)

InTickerSet(w) ==
    criteria.tickers # <<>> /\ \E i \in 1..Len(criteria.tickers) : criteria.tickers[i] = w.a.Ticker

\* C23: with no keyword hit, an announcement whose ticker is in the ticker
\* set and whose sentinel is not in the history gives a Match with
\* TickerMatched, no keywords and the ticker-only snippet; an announcement
\* whose ticker is not in the set gives no Match.
C23_TickerOnlyMatch ==
    Running =>
        \A w \in BagToSet(workers) :
            (Matcher(w) /\ NoKeywordHit(w)) =>
                /\ (InTickerSet(w) /\ <<EntityKey(w.a), TickerMatchPlaceholder>>
                                         \notin StoredPairs(history.ReportedMatches))
                      => /\ w.out = "Emitted"
                         /\ w.m = << [Announcement |-> w.a,
                                      KeywordsFound |-> <<>>,
                                      TickerMatched |-> TRUE,
                                      Context |-> <<"M", "a", "t", "c", "h", " ", "f", "o", "u", "n", "d", " ", "b", "a", "s", "e", "d", " ", "o", "n", " ", "t", "i", "c", "k", "e", "r", " ">>
                                                   \o w.a.Ticker \o <<" ", "o", "n", "l", "y", ".">>] >>
                /\ ~InTickerSet(w) => w.out = "NoMatch" /\ w.m = <<>>

\* a ticker-only Match has been built, and an announcement with neither a
\* keyword nor a ticker match has been passed over
C23_Witness ==
    /\ Running
    /\ \E w \in BagToSet(workers) :
          Matcher(w) /\ NoKeywordHit(w) /\ InTickerSet(w) /\ w.out = "Emitted"
    /\ \E w \in BagToSet(workers) :
          Matcher(w) /\ NoKeywordHit(w) /\ ~InTickerSet(w) /\ w.out = "NoMatch"

\* a Match with no keyword, made on the ticker alone
TickerOnly(m) == m.KeywordsFound = <<>> /\ m.TickerMatched

\* RecordMatches stores the sentinel under the key of every ticker-only Match
SentinelRecorded ==
    RecordStep =>
        \A m \in Range(RecordedNow) :
            TickerOnly(m) =>
                <<EntityKey(m.Announcement), TickerMatchPlaceholder>>
                    \in StoredPairs(history'.ReportedMatches)

\* the announcement of entity key k, matching again on its ticker alone, is
\* suppressed: filterNew returns nothing and no Match is built
TickerOnlySuppressed(k) ==
    \A w \in BagToSet(workers) :
        (Matcher(w) /\ NoKeywordHit(w) /\ InTickerSet(w) /\ EntityKey(w.a) = k) =>
            /\ FilterNewMatches(history, w.a, <<TickerMatchPlaceholder>>, TRUE) = <<>>
            /\ w.out = "Suppressed"
            /\ w.m = <<>>

NothingToLoad ==
    \/ file.kind # "json"
    \/ FileHistory.ReportDate # today
    \/ ~NoFaultNow

\* C25: a load that finds the file missing, unreadable, not JSON or of
\* another day leaves an empty history stamped with the day of the load and
\* the run goes on to fetch the feed.
C25_LoadNeverFails ==
    /\ [][(LoadStep /\ NothingToLoad) =>
              /\ history' = FreshHistory(today)
              /\ lastExit' = "running"]_vars
    /\ [](pc = "scrape" =>
              /\ lastExit = "running"
              /\ ENABLED (Scrape(DailyFeeds) \/ ScrapeEmpty(DailyFeeds)))

\* a run that found a torn file has gone on to collect matches for record
C25_Witness ==
    /\ pc = "record"
    /\ file.kind = "torn"
    /\ history = FreshHistory(startDay)
    /\ annotatedMatches # <<>>

\* C26: when the write of the history file fails, RecordMatches returns, the
\* store in memory holds the tokens of the run and the file has the content
\* it had before.
C26_FailedWriteKeepsFile ==
    [][(RecordStep /\ ~NoFaultNow) =>
          /\ lastExit' = "running"
          /\ AskedPairs(RecordedNow) \subseteq StoredPairs(history'.ReportedMatches)
          /\ file' = file]_vars

\* the goroutine is between Lock and Unlock of a method of the manager
InMethod(g) == goroutines[g].at \in {"body", "loop", "Unlock"}

\* C27: a goroutine inside a method of the manager holds the mutex, so no
\* two are inside at once; the record and the file change only in a step of
\* the holder; and the result of a FilterNewMatches call is the result of
\* the whole call on the record as it is while the caller holds the mutex.
C27_OneHolderAtATime ==
    /\ [](\A g \in DOMAIN goroutines : InMethod(g) => mutex = g)
    /\ [][(history' # history \/ file' # file) =>
              \E g \in DOMAIN goroutines :
                  /\ mutex = g
                  /\ InMethod(g)
                  /\ goroutines'[g] # goroutines[g]]_vars
    /\ [](\A g \in DOMAIN goroutines :
              (goroutines[g].op = "filter" /\ goroutines[g].at = "Unlock") =>
                  goroutines[g].result =
                      FilterNewMatches(history, goroutines[g].ann,
                                       goroutines[g].kws, goroutines[g].tm))

\* a FilterNewMatches call has its result while another goroutine waits at
\* Lock for its RecordMatches, on a record that holds tokens
C27_Witness ==
    \E g, h \in DOMAIN goroutines :
        /\ goroutines[g].op = "filter"
        /\ goroutines[g].at = "Unlock"
        /\ goroutines[g].result = <<>>
        /\ goroutines[h].op = "record"
        /\ goroutines[h].at = "Lock"

\* the body holds name="pdfURL", white space, value=", and a closing quote
\* on the same line
PatternMatches(b) ==
    \E i, k, q \in 1..Len(b) :
        /\ i + 1 < k /\ k < q
        /\ b[i] = "N" /\ b[k] = "V" /\ b[q] = "Q"
        /\ \A j \in (i + 1)..(k - 1) : b[j] \in {"s", "n"}
        /\ \A j \in (k + 1)..(q - 1) : b[j] # "n"

\* some value="..." of the body holds exactly the text u
IsFieldValue(b, u) ==
    \E k, q \in 1..Len(b) :
        /\ k < q /\ b[k] = "V" /\ b[q] = "Q"
        /\ u = SubSeq(b, k + 1, q - 1)
        /\ \A j \in 1..Len(u) : u[j] \notin {"Q", "n"}

\* C28: getPDFURLFromDoURL returns a URL only for a body that holds the
\* terms marker and matches the pattern, and the URL is the value of the
\* field; with the marker and no match, or without the marker, it returns
\* an error and the item is Failed.
C28_ResolveNeedsMarkerAndField ==
    rpc = "resolved" =>
        /\ resolveResult.err = "" =>
              /\ \E t \in 1..Len(body) : body[t] = "T"
              /\ PatternMatches(body)
              /\ IsFieldValue(body, resolveResult.url)
              /\ itemOutcome = "Extracting"
        /\ (~PatternMatches(body) \/ \A t \in 1..Len(body) : body[t] # "T") =>
              /\ resolveResult.err # ""
              /\ itemOutcome = "Failed"

\* a URL was returned from a body with the marker and the field, and the
\* URL is not empty
C28_Witness ==
    /\ rpc = "resolved"
    /\ resolveResult.err = ""
    /\ resolveResult.url = <<"u">>
    /\ body[1] = "T"

\* the rows of a page that carry a document
Listed(rows) == {i \in 1..Len(rows) : rows[i].hasLink}

\* C29: with -price-sensitive every announcement returned has its flag
\* set; without it every listed row of the page read is returned; and the
\* page read is the previous day's exactly when -previous is given.
C29_FlagsDecideFeed ==
    spc = "scraped" =>
        LET rows == IF url = "previous" THEN previousPage ELSE todayPage
        IN  /\ filterPriceSensitive =>
                  \A i \in 1..Len(announcements) : announcements[i].IsPriceSensitive
            /\ ~filterPriceSensitive => Len(announcements) = Cardinality(Listed(rows))
            /\ url = IF scrapePrevious THEN "previous" ELSE "today"

\* the keyword occurs in the string when case is ignored
OccursIn(str, kw) ==
    \E i \in 1..Len(str) :
        /\ i + Len(kw) - 1 <= Len(str)
        /\ \A j \in 1..Len(kw) :
              \/ str[i + j - 1] = kw[j]
              \/ \E u \in 1..Len(UpperChars) :
                    UpperChars[u] = str[i + j - 1] /\ LowerChars[u] = kw[j]

\* C30: a Match with keywords whose first keyword occurs in the title has
\* the title and " (Match found in title)" as its snippet; otherwise its
\* snippet is a window of the text that holds the occurrence of the keyword.
\* Title "ABC announces dividend" with keywords ["dividend"] gives the
\* keyword list ["dividend"] and the title with the annotation.
C30_SnippetOfFirstKeyword ==
    (snpc = "built" /\ built[1].m # <<>> /\ built[1].m[1].KeywordsFound # <<>>) =>
        LET m == built[1].m[1]
            kw == m.KeywordsFound[1]
            annotation == <<" ", "(", "M", "a", "t", "c", "h", " ", "f", "o", "u", "n", "d", " ", "i", "n", " ", "t", "i", "t", "l", "e", ")">>
        IN  /\ OccursIn(doc.Title, kw) => m.Context = doc.Title \o annotation
            /\ ~OccursIn(doc.Title, kw) => OccursIn(m.Context, kw)
            /\ (doc.Title = <<"A", "B", "C", " ", "a", "n", "n", "o", "u", "n", "c", "e", "s", " ", "d", "i", "v", "i", "d", "e", "n", "d">>
                  /\ criteria.keywords = << <<"d", "i", "v", "i", "d", "e", "n", "d">> >>) =>
                  /\ m.KeywordsFound = << <<"d", "i", "v", "i", "d", "e", "n", "d">> >>
                  /\ m.Context = <<"A", "B", "C", " ", "a", "n", "n", "o", "u", "n", "c", "e", "s", " ", "d", "i", "v", "i", "d", "e", "n", "d", " ", "(", "M", "a", "t", "c", "h", " ", "f", "o", "u", "n", "d", " ", "i", "n", " ", "t", "i", "t", "l", "e", ")">>

\* the offset of the first occurrence of the keyword in the text when case
\* is ignored, -1 when there is none
FirstOccurrence(str, kw) ==
    LET at(i) == /\ i + Len(kw) <= Len(str)
                 /\ \A j \in 1..Len(kw) :
                       \/ str[i + j] = kw[j]
                       \/ \E u \in 1..Len(UpperChars) :
                             UpperChars[u] = str[i + j] /\ LowerChars[u] = kw[j]
        hits == {i \in 0..Len(str) : at(i)}
    IN  IF hits = {} THEN -1 ELSE CHOOSE i \in hits : \A h \in hits : i <= h

\* C31: getSnippet(text, keyword), with i the offset of the first occurrence
\* of the keyword in the text when case is ignored, returns the bytes
\* max(i-50,0) .. min(i+len(keyword)+50, len(text)) of the text, with "... "
\* in front exactly when the window starts after offset 0, " ..." behind
\* exactly when it ends before len(text), and newlines turned into blanks;
\* it returns the empty string when the keyword does not occur.
C31_SnippetWindow ==
    snpc = "snippet" =>
        LET keyword == criteria.keywords[1]
            i == FirstOccurrence(docText, keyword)
            from == IF i - 50 > 0 THEN i - 50 ELSE 0
            to == IF i + Len(keyword) + 50 < Len(docText)
                  THEN i + Len(keyword) + 50 ELSE Len(docText)
            window == SubSeq(docText, from + 1, to)
            lead == IF from > 0 THEN <<".", ".", ".", " ">> ELSE <<>>
            trail == IF to < Len(docText) THEN <<" ", ".", ".", ".">> ELSE <<>>
            spaced(str) == [n \in 1..Len(str) |-> IF str[n] = "\n" THEN " " ELSE str[n]]
        IN  built[1] = IF i = -1 THEN <<>> ELSE spaced(lead \o window \o trail)

Ended(w) == w.st \in {"Sending", "Releasing", "Exiting", "Done"}

\* the worker resolved the reference and extracted the text
Extracted(w) == w.a.PDFURL.direct /\ w.text = DocText(w.a.PDFURL.doc)

\* what filterNew returns for the worker's announcement
NewFor(w) ==
    applyHistoryFilter(history, w.a,
                       findKeywords(w.a.Title, w.text, criteria.keywords),
                       isTickerMatch(w.a.Ticker, criteria.tickers))

\* how many entries of the output were built from the document
OutputOf(d) ==
    Cardinality({i \in 1..Len(annotatedMatches) :
                    annotatedMatches[i].Announcement.PDFURL.doc = d})

\* C33: every announcement handed to ProcessAnnouncements gets one worker,
\* is counted once and ends in exactly one of Emitted (a Match), Failed (an
\* error) or Suppressed (neither), with at most one Match in the output: it
\* is Emitted exactly when resolution and extraction succeeded, a keyword
\* was found or the ticker matched, and filterNew returned a non-empty
\* list; an empty list from filterNew gives Suppressed, with no Match and
\* no error; when ProcessAnnouncements returns every announcement has ended.
C33_OneOutcomePerItem ==
    pc \in {"dispatch", "collect", "report"} =>
        /\ \A i \in 1..Len(feed) :
              LET IsItem(w) == w.a.PDFURL.doc = feed[i].PDFURL.doc
              IN  CountWhere(IsItem) = IF i <= next THEN 1 ELSE 0
        /\ LET Counted(w) == w.st # "Resolving"
           IN  processedCount = CountWhere(Counted)
        /\ \A w \in BagToSet(workers) :
              LET hit == ~NoKeywordHit(w) \/ InTickerSet(w)
              IN  /\ ~Ended(w) => w.out = "none" /\ w.m = <<>>
                  /\ Ended(w) =>
                        /\ w.out \in {"Emitted", "Suppressed", "NoMatch", "Failed"}
                        /\ (w.out = "Emitted") = (Extracted(w) /\ hit /\ NewFor(w) # <<>>)
                        /\ (w.out = "Failed") = ~Extracted(w)
                        /\ (Extracted(w) /\ hit /\ NewFor(w) = <<>>) => w.out = "Suppressed"
                        /\ Len(w.m) = IF w.out = "Emitted" THEN 1 ELSE 0
                  /\ OutputOf(w.a.PDFURL.doc) =
                        IF w.out = "Emitted" /\ w.st # "Sending" THEN 1 ELSE 0
        /\ pc = "report" =>
              /\ BagCardinality(workers) = Len(feed)
              /\ \A w \in BagToSet(workers) : w.st = "Done"

\* ProcessAnnouncements has returned with one announcement emitted and
\* another suppressed by the history
C33_Witness ==
    /\ pc = "report"
    /\ \E w \in BagToSet(workers) : w.out = "Emitted"
    /\ \E w \in BagToSet(workers) :
          w.out = "Suppressed" /\ Extracted(w) /\ NewFor(w) = <<>>

\* C34: when the form submission fails (the warning is logged) the resolver
\* still returns without an error the URL of the field, for a body that
\* holds the terms marker, and the item goes on to extraction; with the
\* marker and the field present the URL returned is the same whether or
\* not the submission failed.
C34_FailedSubmissionStillResolves ==
    rpc = "resolved" =>
        /\ resolveResult.warned =>
              /\ resolveResult.err = ""
              /\ \E t \in 1..Len(body) : body[t] = "T"
              /\ IsFieldValue(body, resolveResult.url)
              /\ itemOutcome = "Extracting"
        /\ resolveResult.err = "" =>
              /\ resolveResult.url = FindStringSubmatch(body)[1]
              /\ itemOutcome = "Extracting"

\* the submission failed and the URL of the field was returned
C34_Witness ==
    /\ rpc = "resolved"
    /\ resolveResult.warned
    /\ resolveResult.err = ""
    /\ resolveResult.url = <<"u">>
    /\ itemOutcome = "Extracting"

\* C35: after loadHistory, whatever the history file holds, the map of
\* reported matches is a map (not nil), and no RecordMatches call that
\* follows ends in a runtime failure.
C35_LoadedMapIsInitialised ==
    /\ Built => history.ReportedMatches # NilMap
    /\ lastExit # "panic"

\* the announcement as ScrapeDailyFeed returned it, for a document
FeedItem(d) == feed[CHOOSE i \in 1..Len(feed) : feed[i].PDFURL.doc = d]

\* the announcement is the feed's but for its document reference, which is
\* the trigger URL or the direct URL of the same document
SameButReference(ann) ==
    /\ \E i \in 1..Len(feed) : feed[i].PDFURL.doc = ann.PDFURL.doc
    /\ ann.Ticker = FeedItem(ann.PDFURL.doc).Ticker
    /\ ann.Title = FeedItem(ann.PDFURL.doc).Title
    /\ DOMAIN ann = DOMAIN FeedItem(ann.PDFURL.doc)

\* C36: between fetch, filter and record an announcement changes only in
\* its document reference: every worker's copy, every Match built and every
\* Match in the output carries the ticker and the title of the feed, so the
\* key filterNew looks up is the key under which record stores the tokens
\* of the Match.
C36_SameKeyFilteredAndRecorded ==
    /\ [](\A w \in BagToSet(workers) :
              /\ SameButReference(w.a)
              /\ w.st = "Resolving" => ~w.a.PDFURL.direct
              /\ w.st \in {"Extracting", "Matching", "Sending"} => w.a.PDFURL.direct
              /\ w.m # <<>> =>
                    /\ w.m[1].Announcement = w.a
                    /\ EntityKey(w.m[1].Announcement)
                          = EntityKey(FeedItem(w.a.PDFURL.doc)))
    /\ [](\A j \in 1..Len(annotatedMatches) :
              SameButReference(annotatedMatches[j].Announcement))
    /\ [][RecordStep =>
              \A j \in 1..Len(RecordedNow) :
                  LET m == RecordedNow[j]
                      key == EntityKey(FeedItem(m.Announcement.PDFURL.doc))
                  IN  /\ key \in DOMAIN history'.ReportedMatches
                      /\ \A t \in MatchTokens(m) :
                            Reported(history'.ReportedMatches, key, t)]_vars

\* a Match of a resolved announcement was recorded under the key of the
\* announcement of the feed, which still has the trigger URL
C36_Witness ==
    /\ pc = "done"
    /\ recordCalls = 1
    /\ \E j \in 1..Len(annotatedMatches), i \in 1..Len(feed) :
          /\ annotatedMatches[j].Announcement.PDFURL = DirectURL(feed[i].PDFURL)
          /\ ~feed[i].PDFURL.direct
          /\ annotatedMatches[j].KeywordsFound # <<>>
          /\ Reported(history.ReportedMatches, EntityKey(feed[i]),
                      annotatedMatches[j].KeywordsFound[1])

\* the keywords findKeywords found for the worker's announcement
FoundFor(w) == findKeywords(w.a.Title, w.text, criteria.keywords)

\* the Match is well formed for the worker that built it: it has a keyword
\* or the ticker flag, and its keywords are the found keywords that the
\* history does not hold under the entity key, in the order found, without
\* the sentinel
WellFormed(m, w) ==
    LET key == EntityKey(m.Announcement)
        isNew(kw) == <<key, kw>> \notin StoredPairs(history.ReportedMatches)
    IN  /\ m.KeywordsFound # <<>> \/ m.TickerMatched
        /\ m.KeywordsFound = SelectSeq(FoundFor(w), isNew)
        /\ \A i \in 1..Len(m.KeywordsFound) :
              /\ m.KeywordsFound[i] # TickerMatchPlaceholder
              /\ ~Reported(history.ReportedMatches, key, m.KeywordsFound[i])
        /\ m.TickerMatched = InTickerSet(w)

\* C37: every Match built, and every Match in the output, has a keyword or
\* TickerMatched; its keywords are exactly the found keywords that filterNew
\* gave as new for its entity key, in the order found; the sentinel is not
\* among them.
C37_EmittedMatchWellFormed ==
    pc \in {"dispatch", "collect", "report", "record"} =>
        /\ \A w \in BagToSet(workers) : w.m # <<>> => WellFormed(w.m[1], w)
        /\ \A j \in 1..Len(annotatedMatches) :
              \E w \in BagToSet(workers) :
                  w.m = <<annotatedMatches[j]>> /\ WellFormed(annotatedMatches[j], w)

\* the output holds a Match with fewer keywords than were found, the others
\* being in the history
C37_Witness ==
    /\ pc = "report"
    /\ \E w \in BagToSet(workers) :
          /\ w.m # <<>>
          /\ w.m[1].KeywordsFound # <<>>
          /\ Len(w.m[1].KeywordsFound) < Len(FoundFor(w))
          /\ w.m[1] \in Range(annotatedMatches)

\* the token of the key was handed to the reporter on some day
Alerted(key, t) ==
    \E e \in BagToSet(alerts) : e[2] = key /\ e[3] = t

\* C38: main calls the reporter before RecordMatches: when a run is at the
\* record call every token of its matches has been handed to the reporter,
\* the record step stores only such tokens, and everything ever persisted
\* was reported before, also when runs are ended between report and record.
C38_RecordedOnlyAfterReported ==
    /\ [](pc = "record" =>
              \A j \in 1..Len(annotatedMatches) :
                  \A t \in MatchTokens(annotatedMatches[j]) :
                      Alerted(EntityKey(annotatedMatches[j].Announcement), t))
    /\ [][RecordStep =>
              \A p \in StoredPairs(history'.ReportedMatches) \ StoredPairs(history.ReportedMatches) :
                  Alerted(p[1], p[2])]_vars
    /\ [](\A e \in persisted : Alerted(e[2], e[3]))
    /\ [](file.kind = "json" =>
              \A p \in StoredPairs(FileHistory.ReportedMatches) : Alerted(p[1], p[2]))

\* a run was ended between report and record, and the next run has
\* reported the same token of the same day again; no read or write failed
C38_Witness ==
    /\ pc = "record"
    /\ runsLeft = 0
    /\ faults = MaxFaults
    /\ file = NoFile
    /\ Len(feed) = 1
    /\ \E e \in BagToSet(alerts) : CopiesIn(e, alerts) = 2

\* a criteria keyword occurs in the title of the worker's announcement
TitleHit(w) ==
    \E i \in 1..Len(criteria.keywords) : OccursIn(w.a.Title, criteria.keywords[i])

\* C39: an announcement whose resolution or extraction failed has no Match
\* and no entry in the output, also when its ticker is in the ticker set or
\* a keyword occurs in its title; every Match built belongs to a worker
\* that extracted the text of its document.
C39_NoMatchWithoutExtraction ==
    pc \in {"dispatch", "collect", "report", "record"} =>
        /\ \A w \in BagToSet(workers) :
              (w.out = "Failed" \/ w.st \in {"Resolving", "Extracting"}) =>
                  /\ w.text = <<>>
                  /\ w.m = <<>>
                  /\ OutputOf(w.a.PDFURL.doc) = 0
        /\ \A w \in BagToSet(workers) : w.m # <<>> => Extracted(w)
        /\ \A j \in 1..Len(annotatedMatches) :
              \E w \in BagToSet(workers) :
                  w.m = <<annotatedMatches[j]>> /\ Extracted(w)

\* ProcessAnnouncements has returned without a Match although the
\* announcement whose extraction failed has a keyword in its title or its
\* ticker in the ticker set
C39_Witness ==
    /\ pc = "report"
    /\ annotatedMatches = <<>>
    /\ \E w \in BagToSet(workers) :
          /\ w.out = "Failed"
          /\ w.a.PDFURL.direct
          /\ TitleHit(w) \/ InTickerSet(w)

\* the annotation step fails: the historic fetch fails or has no
\* announcement of the ticker, or the summary call fails
AnnotationFails ==
    \/ aiIn.fetchFails
    \/ \A i \in 1..Len(aiIn.historic) : aiIn.historic[i] # aiIn.ticker
    \/ aiIn.summaryFails

\* C40: with the API key set, a failure of the annotation step never ends
\* the process and never drops the Match: filterAndAnnotate returns the
\* Match, and without an analysis when the summary call failed.
C40_AnnotationFailureKeepsMatch ==
    (aiIn.keySet /\ AnnotationFails /\ apc # "matched") =>
        /\ apc = "returned"
        /\ aiOut.match
        /\ aiIn.summaryFails => aiOut.analysis = "nil"

====
